---- MODULE Spec2Model ----
(***************************************************************************)
(* The segregated-free-list allocator of src/malloc_lab.c as a state       *)
(* machine.  The heap is a byte array; headers and footers are 4-byte      *)
(* little-endian words, free-list links and bucket heads are 8-byte words, *)
(* exactly where the C macros put them.  One action per public entry      *)
(* point (mm_init, malloc, free, realloc, calloc); the helpers are         *)
(* operators that take the heap bytes and return the bytes they leave.     *)
(*                                                                         *)
(* The job-control shell of src/shell_lab.c is a second state machine in   *)
(* the same module: the job list, the shell's place in eval and in the fg  *)
(* and bg builtins, its three signal handlers and the child processes.     *)
(* Neither program touches the other's variables.                          *)
(***************************************************************************)
EXTENDS Integers, Sequences, FiniteSets, TLC

VARIABLES
    mem,           \* heap bytes: [mem_heap_lo .. mem_brk-1 -> 0..255]
    mem_brk,       \* memlib: first address past the heap
    mem_max_addr,  \* memlib: the address the break may not pass
    heap_ptr,      \* global heap_ptr (base of the bucket table)
    heap_start,    \* global heap_start (prologue block pointer)
    phase,         \* "uninit" | "ready" | "init_failed" | "undefined"
    live,          \* pointers the client holds -> bytes it asked for
    clash,         \* TRUE once a call returned a pointer the client held
    fresh,         \* the byte value memory holds before anyone wrote it
    calls,         \* public calls made so far
    run,           \* "plain" | "calls" | "wrap": what the client does
    last,          \* the last public call and what it returned
    job_list,      \* tsh: the job list, slot k here is job_list[k - 1]
    nextjid,       \* tsh: global nextjid
    pc,            \* tsh: where the shell's main flow stands
    pid,           \* tsh: eval's local pid while it waits, else 0
    job_bg,        \* tsh: builtin_cmd's local job_bg (a slot), else NULL
    child          \* kernel: the state of each child process

mm_vars == <<mem, mem_brk, mem_max_addr, heap_ptr, heap_start, phase, live,
             clash, fresh, calls, run, last>>
tsh_vars == <<job_list, nextjid, pc, pid, job_bg, child>>
vars == <<mem, mem_brk, mem_max_addr, heap_ptr, heap_start, phase, live,
          clash, fresh, calls, run, last,
          job_list, nextjid, pc, pid, job_bg, child>>

(* ------------------------------ bounds -------------------------------- *)

\* Largest heap (bytes past mem_heap_lo) the heap primitive grants.
MaxHeap == 448
\* Most pointers the client holds at once.
MaxLive == 3
\* Most public calls in one run.
MaxCalls == 6
\* Most public calls in a run that records each call.
MaxWatched == 4

\* Heap limits tried: three that make mm_init's extensions fail, and MaxHeap.
HeapLimits == {64, 104, 200, MaxHeap}
\* Byte counts the client asks malloc/realloc for.
Sizes == {0, 1, 40, 150}
\* Byte counts asked for in a run that records each call.
CallSizes == {0, 1, 5, 12, 20, 150}
\* Byte counts of a run with requests near the top of size_t: a negative
\* number -k stands for 2^64 - k.
WrapSizes == {1, 150, -3, -4, -100}
\* Largest block size given to the size classifiers.
MaxClassSize == 131096
\* Block sizes classified: the multiples of 8 from 24 up to 160, within 16
\* of a power of two from 128 to 131072, and from 16384 to 16848.
ClassSizes ==
    {s \in (24 .. 160) \cup (16384 .. 16848)
            \cup UNION {((128 * (2 ^ k)) - 16) .. ((128 * (2 ^ k)) + 16) :
                           k \in 0 .. 10} :
        s % 8 = 0 /\ s <= MaxClassSize}
\* Byte counts asked for by the client that only allocates and frees.
FitSizes == {1, 40, 100}
\* Byte counts asked for by the client that allocates a few blocks and
\* then frees them.
PairSizes == {40, 100}
\* The client that allocates a row of 16 equal blocks and frees every
\* other one: the byte counts tried (one per run), and the heap limit,
\* which is the heap a row of the largest count takes.
RowSizes == {48, 56, 64}
RowHeap == 1288
\* calloc arguments (nmemb, size).
CallocArgs == {<<0, 8>>, <<3, 0>>, <<2, 20>>}
\* Byte values memory nobody wrote yet may hold.
FreshBytes == {85}
\* Most child processes of the shell alive at once; fork hands out the
\* process ids 1 .. MaxProcs.
MaxProcs == 2
Pids == 1 .. MaxProcs
\* Largest job id the shell hands out: no job is launched once nextjid is
\* above it (in the program job ids grow for as long as some job is alive).
MaxJid == 3

(* --------------------------- constants -------------------------------- *)

NULL == 0
WSIZE == 4
DSIZE == 8
CHUNKSIZE == 168
OVERHEAD == 8
MIN_BLOCK_SIZE == 24
ALLOC == 1
PREV_ALLOC == 2
NO_OF_LISTS == 12

LIST0_SIZE == 128
LIST1_SIZE == 256
LIST2_SIZE == 512
LIST3_SIZE == 1024
LIST4_SIZE == 2048
LIST5_SIZE == 4096
LIST6_SIZE == 8192
LIST7_SIZE == 16834
LIST8_SIZE == 32768
LIST9_SIZE == 65536
LIST10_SIZE == 131072

LIST_0 == 0
LIST_1 == 8
LIST_2 == 16
LIST_3 == 24
LIST_4 == 32
LIST_5 == 40
LIST_6 == 48
LIST_7 == 56
LIST_8 == 64
LIST_9 == 72
LIST_10 == 80
LIST_11 == 88

\* memlib: the heap's first address; 8-aligned and not NULL.
mem_heap_lo == 4096
\* memlib: mem_sbrk's error value, (void *)-1.
SBRK_ERR == -1
\* A stored 8-byte value whose upper four bytes are not zero: an address
\* outside anything the model's heap can hold.
WILD == -2

(* ---------------------- words in the byte array ----------------------- *)

\* x <= y on size_t.  A size_t value v is the integer v, or v - 2^64 when
\* v is within 2^31 of 2^64, so sums and differences wrap as in C.
ULE(x, y) == IF (x < 0) = (y < 0) THEN x <= y ELSE y < 0

MAX(x, y) == IF ~ULE(x, y) THEN x ELSE y
MIN(x, y) == IF ~ULE(y, x) THEN x ELSE y

\* Bitwise or of two non-negative integers.
RECURSIVE BitOr(_, _)
BitOr(x, y) ==
    IF x = 0 THEN y
    ELSE IF y = 0 THEN x
    ELSE MAX(x % 2, y % 2) + 2 * BitOr(x \div 2, y \div 2)

PACK(size, alloc) == BitOr(size, alloc)

GET_4(m, p) == m[p] + 256 * m[p + 1] + 65536 * m[p + 2] + 16777216 * m[p + 3]

PUT_4(m, p, val) ==
    [m EXCEPT ![p] = val % 256,
              ![p + 1] = (val \div 256) % 256,
              ![p + 2] = (val \div 65536) % 256,
              ![p + 3] = (val \div 16777216) % 256]

GET(m, p) == IF GET_4(m, p + 4) = 0 THEN GET_4(m, p) ELSE WILD

PUT(m, p, val) ==
    [m EXCEPT ![p] = val % 256,
              ![p + 1] = (val \div 256) % 256,
              ![p + 2] = (val \div 65536) % 256,
              ![p + 3] = (val \div 16777216) % 256,
              ![p + 4] = 0, ![p + 5] = 0, ![p + 6] = 0, ![p + 7] = 0]

GET_SIZE(m, p) == (GET_4(m, p) \div 8) * 8
GET_PREV_ALLOC(m, p) == ((GET_4(m, p) \div 2) % 2) * 2
GET_ALLOC(m, p) == GET_4(m, p) % 2

\* Variant of FTRP: the word before the footer.
FTRP_word_early(m, bp) == bp + GET_SIZE(m, bp - WSIZE) - DSIZE - WSIZE

HDRP(bp) == bp - WSIZE
FTRP(m, bp) == bp + GET_SIZE(m, HDRP(bp)) - DSIZE
NEXT_BLKP(m, bp) == bp + GET_SIZE(m, bp - WSIZE)
PREV_BLKP(m, bp) == bp - GET_SIZE(m, bp - DSIZE)
NEXT_FREE(bp) == bp
PREV_FREE(bp) == bp + DSIZE

(* --------------------------- size classes ----------------------------- *)

get_index(asize) ==
    IF ULE(asize, LIST0_SIZE) THEN 0
    ELSE IF ULE(asize, LIST1_SIZE) THEN 1
    ELSE IF ULE(asize, LIST2_SIZE) THEN 2
    ELSE IF ULE(asize, LIST3_SIZE) THEN 3
    ELSE IF ULE(asize, LIST4_SIZE) THEN 4
    ELSE IF ULE(asize, LIST5_SIZE) THEN 5
    ELSE IF ULE(asize, LIST6_SIZE) THEN 6
    ELSE IF ULE(asize, LIST7_SIZE) THEN 7
    ELSE IF ULE(asize, LIST8_SIZE) THEN 8
    ELSE IF ULE(asize, LIST9_SIZE) THEN 9
    ELSE IF ULE(asize, LIST10_SIZE) THEN 10
    ELSE 11

find_list(ind) ==
    IF ind = 0 THEN LIST_0
    ELSE IF ind = 1 THEN LIST_1
    ELSE IF ind = 2 THEN LIST_2
    ELSE IF ind = 3 THEN LIST_3
    ELSE IF ind = 4 THEN LIST_4
    ELSE IF ind = 5 THEN LIST_5
    ELSE IF ind = 6 THEN LIST_6
    ELSE IF ind = 7 THEN LIST_7
    ELSE IF ind = 8 THEN LIST_8
    ELSE IF ind = 9 THEN LIST_9
    ELSE IF ind = 10 THEN LIST_10
    ELSE LIST_11

\* Variant of find_list_by_size: every size is put in the first bucket.
find_list_by_size_first(ind) == LIST_0

find_list_by_size(ind) ==
    IF ind <= LIST0_SIZE THEN LIST_0
    ELSE IF ind <= LIST1_SIZE THEN LIST_1
    ELSE IF ind <= LIST2_SIZE THEN LIST_2
    ELSE IF ind <= LIST3_SIZE THEN LIST_3
    ELSE IF ind <= LIST4_SIZE THEN LIST_4
    ELSE IF ind <= LIST5_SIZE THEN LIST_5
    ELSE IF ind <= LIST6_SIZE THEN LIST_6
    ELSE IF ind <= LIST7_SIZE THEN LIST_7
    ELSE IF ind <= LIST8_SIZE THEN LIST_8
    ELSE IF ind <= LIST9_SIZE THEN LIST_9
    ELSE IF ind <= LIST10_SIZE THEN LIST_10
    ELSE LIST_11

get_list_size(index) ==
    IF index = 0 THEN LIST0_SIZE
    ELSE IF index = 1 THEN LIST1_SIZE
    ELSE IF index = 2 THEN LIST2_SIZE
    ELSE IF index = 3 THEN LIST3_SIZE
    ELSE IF index = 4 THEN LIST4_SIZE
    ELSE IF index = 5 THEN LIST5_SIZE
    ELSE IF index = 6 THEN LIST6_SIZE
    ELSE IF index = 7 THEN LIST7_SIZE
    ELSE IF index = 8 THEN LIST8_SIZE
    ELSE IF index = 9 THEN LIST9_SIZE
    ELSE LIST10_SIZE

(* ----------------------------- memlib --------------------------------- *)

\* mem_sbrk(incr): the old break and the grown heap, whose new bytes hold
\* fill; the error value and an unchanged heap when the limit is passed.
mem_sbrk(m, brk, incr, fill) ==
    IF incr < 0 \/ brk + incr > mem_max_addr
    THEN [ret |-> SBRK_ERR, m |-> m, brk |-> brk]
    ELSE [ret |-> brk,
          m |-> [a \in mem_heap_lo .. (brk + incr - 1) |->
                    IF a < brk THEN m[a] ELSE fill],
          brk |-> brk + incr]

mem_heap_hi(brk) == brk - 1

in_heap(brk, p) == p <= mem_heap_hi(brk) /\ p >= mem_heap_lo

aligned(p) == ((p + 7) \div 8) * 8 = p

\* Then(x, F): F applied to x; names the result of one statement for the
\* statements that follow it.
Then(x, F(_)) == F(x)

(* --------------------------- free lists ------------------------------- *)

\* Variant of add_free_blk: a block added to a list that has a head goes
\* behind that head.
add_free_blk_behind_head(m, hp, bp, size) ==
    LET list_num == find_list_by_size(size)
        fit_seg == hp + list_num
        fit_blk == GET(m, hp + list_num)
    IN  IF fit_blk # NULL
        THEN LET second == GET(m, NEXT_FREE(fit_blk))
                 m1 == PUT(m, NEXT_FREE(fit_blk), bp)
                 m2 == PUT(m1, PREV_FREE(bp), fit_blk)
                 m3 == PUT(m2, NEXT_FREE(bp), second)
             IN  IF second # NULL THEN PUT(m3, PREV_FREE(second), bp) ELSE m3
        ELSE PUT(PUT(PUT(m, fit_seg, bp), PREV_FREE(bp), NULL),
                 NEXT_FREE(bp), NULL)

\* Variant of add_free_blk: the block goes to list 0 whatever its size.
add_free_blk_in_list_zero(m, hp, bp, size) ==
    LET fit_seg == hp + LIST_0
        fit_blk == GET(m, hp + LIST_0)
    IN  IF fit_blk # NULL
        THEN LET m1 == PUT(m, fit_seg, bp)
                 m2 == PUT(m1, PREV_FREE(bp), NULL)
                 m3 == PUT(m2, PREV_FREE(fit_blk), bp)
             IN  PUT(m3, NEXT_FREE(bp), fit_blk)
        ELSE LET m1 == PUT(m, fit_seg, bp)
                 m2 == PUT(m1, PREV_FREE(bp), NULL)
             IN  PUT(m2, NEXT_FREE(bp), NULL)

\* Variant of add_free_blk: the bucket head is not moved to the new block.
add_free_blk_head_unmoved(m, hp, bp, size) ==
    LET list_num == find_list_by_size(size)
        fit_blk == GET(m, hp + list_num)
    IN  IF fit_blk # NULL
        THEN PUT(PUT(PUT(m, PREV_FREE(bp), NULL), PREV_FREE(fit_blk), bp),
                 NEXT_FREE(bp), fit_blk)
        ELSE PUT(PUT(m, PREV_FREE(bp), NULL), NEXT_FREE(bp), NULL)

\* Variant of add_free_blk: the old head's prev link is not set.
add_free_blk_no_back_link(m, hp, bp, size) ==
    LET list_num == find_list_by_size(size)
        fit_seg == hp + list_num
        fit_blk == GET(m, hp + list_num)
    IN  PUT(PUT(PUT(m, fit_seg, bp), PREV_FREE(bp), NULL),
            NEXT_FREE(bp), fit_blk)

add_free_blk(m, hp, bp, size) ==
    LET list_num == find_list_by_size(size)
        fit_seg == hp + list_num
        fit_blk == GET(m, hp + list_num)
    IN  IF fit_blk # NULL
        THEN LET m1 == PUT(m, fit_seg, bp)
                 m2 == PUT(m1, PREV_FREE(bp), NULL)
                 m3 == PUT(m2, PREV_FREE(fit_blk), bp)
             IN  PUT(m3, NEXT_FREE(bp), fit_blk)
        ELSE LET m1 == PUT(m, fit_seg, bp)
                 m2 == PUT(m1, PREV_FREE(bp), NULL)
             IN  PUT(m2, NEXT_FREE(bp), NULL)

\* Variant of rem_free_blk: the block stays in its list.
rem_free_blk_stays(m, hp, bp, size) == m

rem_free_blk(m, hp, bp, size) ==
    LET next_free_blk == GET(m, NEXT_FREE(bp))
        prev_free_blk == GET(m, PREV_FREE(bp))
        list_num == find_list_by_size(size)
    IN  IF prev_free_blk = NULL /\ next_free_blk = NULL
        THEN PUT(m, hp + list_num, NULL)
        ELSE IF prev_free_blk = NULL /\ next_free_blk # NULL
        THEN PUT(PUT(m, hp + list_num, next_free_blk),
                 PREV_FREE(next_free_blk), NULL)
        ELSE IF prev_free_blk # NULL /\ next_free_blk = NULL
        THEN PUT(m, NEXT_FREE(prev_free_blk), NULL)
        ELSE PUT(PUT(m, NEXT_FREE(prev_free_blk), next_free_blk),
                 PREV_FREE(next_free_blk), prev_free_blk)

(* --------------------------- coalescing ------------------------------- *)

\* The blocks coalesce(bp) evaluates PREV_BLKP for, reading the word at
\* bp - DSIZE as a footer: 'char *prev_blk = PREV_BLKP(bp);' initialises a
\* local before the flags are looked at, so bp is one in every call, and
\* the function has no other PREV_BLKP.
coalesce_prev_blkp(bp) == {bp}

\* Variant of coalesce: a free previous block is never merged.
coalesce_next_only(m, hp, bp) ==
    LET size == GET_SIZE(m, HDRP(bp))
        next_blk == NEXT_BLKP(m, bp)
        next_size == GET_SIZE(m, HDRP(next_blk))
        prev_alloc == GET_PREV_ALLOC(m, HDRP(bp))
    IN  IF GET_ALLOC(m, HDRP(next_blk)) = 1 THEN [m |-> m, bp |-> bp]
        ELSE Then(rem_free_blk(m, hp, bp, size), LAMBDA m1 :
             Then(rem_free_blk(m1, hp, next_blk, next_size), LAMBDA m2 :
             Then(PUT_4(m2, HDRP(bp), PACK(size + next_size, prev_alloc)),
                  LAMBDA m3 :
             Then(PUT_4(m3, FTRP(m3, bp), PACK(size + next_size, prev_alloc)),
                  LAMBDA m4 :
             [m |-> add_free_blk(m4, hp, bp, size + next_size),
              bp |-> bp]))))

\* Variant of coalesce: no neighbour is merged.
coalesce_never(m, hp, bp) == [m |-> m, bp |-> bp]

\* Variant of coalesce: with both neighbours free only the previous one
\* is merged.
coalesce_prev_before_next(m, hp, bp) ==
    LET size == GET_SIZE(m, HDRP(bp))
        prev_blk == PREV_BLKP(m, bp)
        prev_hdr == HDRP(prev_blk)
    IN  IF GET_PREV_ALLOC(m, HDRP(bp)) # 0 THEN coalesce_next_only(m, hp, bp)
        ELSE Then(rem_free_blk(m, hp, bp, size), LAMBDA m1 :
             Then(rem_free_blk(m1, hp, prev_blk, GET_SIZE(m, prev_hdr)),
                  LAMBDA m2 :
             Then(PUT_4(m2, prev_hdr,
                        PACK(size + GET_SIZE(m, prev_hdr),
                             GET_PREV_ALLOC(m2, prev_hdr))), LAMBDA m3 :
             Then(PUT_4(m3, FTRP(m3, prev_blk), GET_4(m3, prev_hdr)),
                  LAMBDA m4 :
             [m |-> add_free_blk(m4, hp, prev_blk,
                                 size + GET_SIZE(m, prev_hdr)),
              bp |-> prev_blk]))))

\* coalesce(bp): the heap bytes it leaves and the block pointer it returns.
coalesce(m, hp, bp) ==
    LET size == GET_SIZE(m, HDRP(bp))
        prev_blk == PREV_BLKP(m, bp)
        prev_hdr == HDRP(prev_blk)
        next_blk == NEXT_BLKP(m, bp)
        next_size == GET_SIZE(m, HDRP(next_blk))
        next_alloc == GET_ALLOC(m, HDRP(NEXT_BLKP(m, bp)))
        prev_alloc == GET_PREV_ALLOC(m, HDRP(bp))
        check == BitOr(prev_alloc, next_alloc)
    IN  IF check = 3 THEN [m |-> m, bp |-> bp]
        ELSE IF check = 2
        THEN Then(rem_free_blk(m, hp, bp, size), LAMBDA m1 :
             Then(rem_free_blk(m1, hp, next_blk, next_size), LAMBDA m2 :
             Then(PUT_4(m2, HDRP(bp), PACK(size + next_size, prev_alloc)),
                  LAMBDA m3 :
             Then(PUT_4(m3, FTRP(m3, bp), PACK(size + next_size, prev_alloc)),
                  LAMBDA m4 :
             [m |-> add_free_blk(m4, hp, bp, size + next_size),
              bp |-> bp]))))
        ELSE IF check = 1
        THEN Then(rem_free_blk(m, hp, bp, size), LAMBDA m1 :
             Then(rem_free_blk(m1, hp, prev_blk, GET_SIZE(m, prev_hdr)),
                  LAMBDA m2 :
             Then(PUT_4(m2, prev_hdr,
                        PACK(size + GET_SIZE(m, prev_hdr),
                             GET_PREV_ALLOC(m2, prev_hdr))), LAMBDA m3 :
             Then(PUT_4(m3, FTRP(m3, prev_blk), GET_4(m3, prev_hdr)),
                  LAMBDA m4 :
             [m |-> add_free_blk(m4, hp, prev_blk,
                                 size + GET_SIZE(m, prev_hdr)),
              bp |-> prev_blk]))))
        ELSE Then(rem_free_blk(m, hp, bp, size), LAMBDA m1 :
             Then(rem_free_blk(m1, hp, prev_blk, GET_SIZE(m, prev_hdr)),
                  LAMBDA m2 :
             Then(rem_free_blk(m2, hp, next_blk, next_size), LAMBDA m3 :
             Then(PUT_4(m3, prev_hdr,
                        PACK(size + GET_SIZE(m, prev_hdr) + next_size,
                             GET_PREV_ALLOC(m3, prev_hdr))), LAMBDA m4 :
             Then(PUT_4(m4, FTRP(m4, prev_blk), GET_4(m4, prev_hdr)),
                  LAMBDA m5 :
             [m |-> add_free_blk(m5, hp, prev_blk,
                                 size + GET_SIZE(m, prev_hdr) + next_size),
              bp |-> prev_blk])))))

(* ------------------------- heap extension ----------------------------- *)

\* Variant of extend_heap: no new epilogue header is written.
extend_heap_no_epilogue(m, brk, hp, words, fill) ==
    Then(mem_sbrk(m, brk, words, fill), LAMBDA s :
    IF s.ret < 0
    THEN [bp |-> NULL, m |-> m, brk |-> brk]
    ELSE Then(PUT_4(s.m, HDRP(s.ret),
                    PACK(words, GET_PREV_ALLOC(s.m, HDRP(s.ret)))), LAMBDA m1 :
         Then(PUT_4(m1, FTRP(m1, s.ret), GET_4(m1, HDRP(s.ret))), LAMBDA m2 :
         Then(add_free_blk(m2, hp, s.ret, words), LAMBDA m4 :
         Then(coalesce(m4, hp, s.ret), LAMBDA c :
         [bp |-> c.bp, m |-> c.m, brk |-> s.brk])))))

\* Variant of extend_heap: the new block's header and footer hold a size
\* 8 bytes less than what mem_sbrk gave.
extend_heap_header_short(m, brk, hp, words, fill) ==
    Then(mem_sbrk(m, brk, words, fill), LAMBDA s :
    IF s.ret < 0
    THEN [bp |-> NULL, m |-> m, brk |-> brk]
    ELSE Then(PUT_4(s.m, HDRP(s.ret),
                    PACK(words - DSIZE,
                         GET_PREV_ALLOC(s.m, HDRP(s.ret)))), LAMBDA m1 :
         Then(PUT_4(m1, FTRP(m1, s.ret), GET_4(m1, HDRP(s.ret))), LAMBDA m2 :
         Then(PUT_4(m2, HDRP(NEXT_BLKP(m2, s.ret)), PACK(0, 1)), LAMBDA m3 :
         Then(add_free_blk(m3, hp, s.ret, words - DSIZE), LAMBDA m4 :
         Then(coalesce(m4, hp, s.ret), LAMBDA c :
         [bp |-> c.bp, m |-> c.m, brk |-> s.brk]))))))

\* extend_heap(words): NULL and the heap untouched when mem_sbrk refuses;
\* else the new free block, coalesced, and the heap it leaves.
extend_heap(m, brk, hp, words, fill) ==
    Then(mem_sbrk(m, brk, words, fill), LAMBDA s :
    IF s.ret < 0
    THEN [bp |-> NULL, m |-> m, brk |-> brk]
    ELSE Then(PUT_4(s.m, HDRP(s.ret),
                    PACK(words, GET_PREV_ALLOC(s.m, HDRP(s.ret)))), LAMBDA m1 :
         Then(PUT_4(m1, FTRP(m1, s.ret), GET_4(m1, HDRP(s.ret))), LAMBDA m2 :
         Then(PUT_4(m2, HDRP(NEXT_BLKP(m2, s.ret)), PACK(0, 1)), LAMBDA m3 :
         Then(add_free_blk(m3, hp, s.ret, words), LAMBDA m4 :
         Then(coalesce(m4, hp, s.ret), LAMBDA c :
         [bp |-> c.bp, m |-> c.m, brk |-> s.brk]))))))

(* ---------------------------- placement ------------------------------- *)

\* Variant of find_block_walk: only the head of the list is looked at.
find_block_walk_head_only(m, fit_blk, size) ==
    IF fit_blk = NULL THEN NULL
    ELSE IF ULE(size, GET_SIZE(m, HDRP(fit_blk))) THEN fit_blk
    ELSE NULL

\* The while loop of find_block_in_list, from list node fit_blk on.
RECURSIVE find_block_walk(_, _, _)
find_block_walk(m, fit_blk, size) ==
    IF fit_blk = NULL THEN NULL
    ELSE IF ULE(size, GET_SIZE(m, HDRP(fit_blk))) THEN fit_blk
    ELSE find_block_walk(m, GET(m, NEXT_FREE(fit_blk)), size)

find_block_in_list(m, hp, index, size) ==
    find_block_walk(m, GET(m, hp + find_list(index)), size)

\* The for loop of find_fit, from list i on.
RECURSIVE find_fit_from(_, _, _, _)
find_fit_from(m, hp, i, asize) ==
    IF i >= NO_OF_LISTS THEN NULL
    ELSE Then(find_block_in_list(m, hp, i, asize), LAMBDA bp :
         IF bp # NULL THEN bp ELSE find_fit_from(m, hp, i + 1, asize))

find_fit(m, hp, asize) == find_fit_from(m, hp, get_index(asize), asize)

\* Variant of place: the remainder of a split gets no P flag.
place_remainder_unflagged(m, hp, bp, asize) ==
    LET blk_size == GET_SIZE(m, HDRP(bp))
        extra == GET_SIZE(m, HDRP(bp)) - asize
        next_blk == NEXT_BLKP(m, bp)
    IN  Then(rem_free_blk(m, hp, bp, blk_size), LAMBDA m1 :
        IF extra >= MIN_BLOCK_SIZE \/ extra < 0
        THEN Then(PUT_4(m1, HDRP(bp),
                        PACK(asize, BitOr(GET_PREV_ALLOC(m1, HDRP(bp)), ALLOC))),
                  LAMBDA m2 :
             Then(NEXT_BLKP(m2, bp), LAMBDA nb :
             Then(PUT_4(m2, HDRP(nb), extra), LAMBDA m3 :
             Then(PUT_4(m3, FTRP(m3, nb), extra), LAMBDA m4 :
             add_free_blk(m4, hp, nb, extra)))))
        ELSE Then(PUT_4(m1, HDRP(bp),
                        PACK(blk_size,
                             BitOr(GET_PREV_ALLOC(m1, HDRP(bp)), ALLOC))),
                  LAMBDA m2 :
             Then(PUT_4(m2, HDRP(next_blk),
                        BitOr(GET_4(m2, HDRP(next_blk)), PREV_ALLOC)),
                  LAMBDA m3 :
             IF GET_ALLOC(m3, HDRP(next_blk)) = 0
             THEN PUT_4(m3, FTRP(m3, next_blk), GET_4(m3, HDRP(next_blk)))
             ELSE m3)))

\* Variant of place: the block is never split.
place_never_splits(m, hp, bp, asize) ==
    LET blk_size == GET_SIZE(m, HDRP(bp))
        next_blk == NEXT_BLKP(m, bp)
    IN  Then(rem_free_blk(m, hp, bp, blk_size), LAMBDA m1 :
        Then(PUT_4(m1, HDRP(bp),
                   PACK(blk_size, BitOr(GET_PREV_ALLOC(m1, HDRP(bp)), ALLOC))),
             LAMBDA m2 :
        Then(PUT_4(m2, HDRP(next_blk),
                   BitOr(GET_4(m2, HDRP(next_blk)), PREV_ALLOC)),
             LAMBDA m3 :
        IF GET_ALLOC(m3, HDRP(next_blk)) = 0
        THEN PUT_4(m3, FTRP(m3, next_blk), GET_4(m3, HDRP(next_blk)))
        ELSE m3)))

\* place(bp, asize).  extra is a size_t: when asize exceeds the block size
\* the difference wraps to a huge value, which passes the split test.
place(m, hp, bp, asize) ==
    LET blk_size == GET_SIZE(m, HDRP(bp))
        extra == GET_SIZE(m, HDRP(bp)) - asize
        next_blk == NEXT_BLKP(m, bp)
    IN  Then(rem_free_blk(m, hp, bp, blk_size), LAMBDA m1 :
        IF extra >= MIN_BLOCK_SIZE \/ extra < 0
        THEN Then(PUT_4(m1, HDRP(bp),
                        PACK(asize, BitOr(GET_PREV_ALLOC(m1, HDRP(bp)), ALLOC))),
                  LAMBDA m2 :
             Then(NEXT_BLKP(m2, bp), LAMBDA nb :
             Then(PUT_4(m2, HDRP(nb), BitOr(extra, PREV_ALLOC)), LAMBDA m3 :
             Then(PUT_4(m3, FTRP(m3, nb), BitOr(extra, PREV_ALLOC)), LAMBDA m4 :
             add_free_blk(m4, hp, nb, extra)))))
        ELSE Then(PUT_4(m1, HDRP(bp),
                        PACK(blk_size,
                             BitOr(GET_PREV_ALLOC(m1, HDRP(bp)), ALLOC))),
                  LAMBDA m2 :
             Then(PUT_4(m2, HDRP(next_blk),
                        BitOr(GET_4(m2, HDRP(next_blk)), PREV_ALLOC)),
                  LAMBDA m3 :
             IF GET_ALLOC(m3, HDRP(next_blk)) = 0
             THEN PUT_4(m3, FTRP(m3, next_blk), GET_4(m3, HDRP(next_blk)))
             ELSE m3)))

(* ---------------------------- public API ------------------------------ *)

\* Variant of adjusted_size: the header is added but nothing is rounded.
adjusted_size_unrounded(size) ==
    IF size <= 2 * DSIZE THEN MIN_BLOCK_SIZE ELSE size + WSIZE

\* The adjusted block size malloc computes for a request of size bytes.
adjusted_size(size) ==
    IF ULE(size, 2 * DSIZE) THEN MIN_BLOCK_SIZE
    ELSE ((size + WSIZE + 7) \div 8) * 8

\* Variant of malloc_with: when extend_heap refuses, the epilogue header is
\* left cleared.
malloc_with_refusal_clears_epilogue(m, brk, hp, asize, fill, bp) ==
    IF bp # NULL
    THEN [bp |-> bp, m |-> place(m, hp, bp, asize), brk |-> brk]
    ELSE Then(extend_heap(m, brk, hp, MAX(asize, CHUNKSIZE), fill), LAMBDA e :
         IF e.bp = NULL
         THEN [bp |-> NULL, m |-> PUT_4(m, brk - WSIZE, 0), brk |-> brk]
         ELSE [bp |-> e.bp, m |-> place(e.m, hp, e.bp, asize), brk |-> e.brk])

\* The tail of malloc, once find_fit has answered bp.
malloc_with(m, brk, hp, asize, fill, bp) ==
    IF bp # NULL
    THEN [bp |-> bp, m |-> place(m, hp, bp, asize), brk |-> brk]
    ELSE Then(extend_heap(m, brk, hp, MAX(asize, CHUNKSIZE), fill), LAMBDA e :
         IF e.bp = NULL
         THEN [bp |-> NULL, m |-> m, brk |-> brk]
         ELSE [bp |-> e.bp, m |-> place(e.m, hp, e.bp, asize), brk |-> e.brk])

\* The call of place malloc(size) makes: the heap it is made on, the block
\* and asize; bp is NULL when malloc returns without calling place.
place_call(m, brk, hp, size, fill) ==
    IF ULE(size, 0) THEN [bp |-> NULL, m |-> m, asize |-> 0]
    ELSE Then(find_fit(m, hp, adjusted_size(size)), LAMBDA bp :
         IF bp # NULL
         THEN [bp |-> bp, m |-> m, asize |-> adjusted_size(size)]
         ELSE Then(extend_heap(m, brk, hp,
                               MAX(adjusted_size(size), CHUNKSIZE), fill),
                   LAMBDA e :
              [bp |-> e.bp, m |-> e.m, asize |-> adjusted_size(size)]))

\* Variant of malloc: the address of the block's header is returned.
malloc_header_address(m, brk, hp, size, fill) ==
    IF size <= 0 THEN [bp |-> NULL, m |-> m, brk |-> brk]
    ELSE Then(malloc_with(m, brk, hp, adjusted_size(size), fill,
                          find_fit(m, hp, adjusted_size(size))), LAMBDA r :
         [bp |-> IF r.bp = NULL THEN NULL ELSE HDRP(r.bp),
          m |-> r.m, brk |-> r.brk])

\* Variant of malloc: a request of 0 bytes is served like any other.
malloc_zero_served(m, brk, hp, size, fill) ==
    malloc_with(m, brk, hp, adjusted_size(size), fill,
                find_fit(m, hp, adjusted_size(size)))

\* malloc(size): the pointer returned and the heap it leaves.
malloc(m, brk, hp, size, fill) ==
    IF ULE(size, 0) THEN [bp |-> NULL, m |-> m, brk |-> brk]
    ELSE malloc_with(m, brk, hp, adjusted_size(size), fill,
                     find_fit(m, hp, adjusted_size(size)))

\* Variant of free: free(NULL) empties the list of the first chunk's size.
free_null_empties_list(m, hp, bp) ==
    IF bp = NULL THEN PUT(m, hp + find_list_by_size(CHUNKSIZE), NULL)
    ELSE
    LET header_next == HDRP(NEXT_BLKP(m, bp))
        size == GET_SIZE(m, HDRP(bp))
    IN  Then(PUT_4(m, header_next,
                   BitOr(GET_SIZE(m, header_next), GET_ALLOC(m, header_next))),
             LAMBDA m1 :
        Then(PUT_4(m1, HDRP(bp), BitOr(size, GET_PREV_ALLOC(m1, HDRP(bp)))),
             LAMBDA m2 :
        Then(PUT_4(m2, FTRP(m2, bp), GET_4(m2, HDRP(bp))), LAMBDA m3 :
        Then(add_free_blk(m3, hp, bp, size), LAMBDA m4 :
        coalesce(m4, hp, bp).m))))

\* Variant of free: the freed block is listed but not coalesced.
free_without_coalesce(m, hp, bp) ==
    IF bp = NULL THEN m
    ELSE
    LET header_next == HDRP(NEXT_BLKP(m, bp))
        size == GET_SIZE(m, HDRP(bp))
    IN  Then(PUT_4(m, header_next,
                   BitOr(GET_SIZE(m, header_next), GET_ALLOC(m, header_next))),
             LAMBDA m1 :
        Then(PUT_4(m1, HDRP(bp), BitOr(size, GET_PREV_ALLOC(m1, HDRP(bp)))),
             LAMBDA m2 :
        Then(PUT_4(m2, FTRP(m2, bp), GET_4(m2, HDRP(bp))), LAMBDA m3 :
        add_free_blk(m3, hp, bp, size))))

\* Variant of free: the next block's P flag is left as it was.
free_keeps_next_flag(m, hp, bp) ==
    IF bp = NULL THEN m
    ELSE
    LET size == GET_SIZE(m, HDRP(bp))
    IN  Then(PUT_4(m, HDRP(bp), BitOr(size, GET_PREV_ALLOC(m, HDRP(bp)))),
             LAMBDA m2 :
        Then(PUT_4(m2, FTRP(m2, bp), GET_4(m2, HDRP(bp))), LAMBDA m3 :
        Then(add_free_blk(m3, hp, bp, size), LAMBDA m4 :
        coalesce(m4, hp, bp).m)))

\* free(bp): the heap it leaves.
free(m, hp, bp) ==
    IF bp = NULL THEN m
    ELSE
    LET header_next == HDRP(NEXT_BLKP(m, bp))
        size == GET_SIZE(m, HDRP(bp))
    IN  Then(PUT_4(m, header_next,
                   BitOr(GET_SIZE(m, header_next), GET_ALLOC(m, header_next))),
             LAMBDA m1 :
        Then(PUT_4(m1, HDRP(bp), BitOr(size, GET_PREV_ALLOC(m1, HDRP(bp)))),
             LAMBDA m2 :
        Then(PUT_4(m2, FTRP(m2, bp), GET_4(m2, HDRP(bp))), LAMBDA m3 :
        Then(add_free_blk(m3, hp, bp, size), LAMBDA m4 :
        coalesce(m4, hp, bp).m))))

\* memcpy(dst, src, n).  A source byte at or past the break holds fill.
\* fwd picks, where source and destination overlap (undefined in C), the
\* ascending byte-by-byte copy instead of the copy of the bytes as they were.
memcpy(m, brk, dst, src, n, fwd, fill) ==
    [a \in DOMAIN m |->
        IF a >= dst /\ a < dst + n
        THEN IF fwd /\ src < dst /\ dst < src + n
             THEN m[src + ((a - dst) % (dst - src))]
             ELSE IF src + (a - dst) < brk THEN m[src + (a - dst)] ELSE fill
        ELSE m[a]]

\* The for loop of calloc: one zero byte at ptr + i*size for each i < nmemb.
calloc_zero(m, ptr, nmemb, size) ==
    [a \in DOMAIN m |->
        IF \E i \in 0 .. (nmemb - 1) : a = ptr + i * size THEN 0 ELSE m[a]]

\* Variant of realloc: the old block is freed before malloc is asked for
\* the new one, and stays freed when malloc fails.
realloc_frees_first(m, brk, hp, oldptr, size, fwd, fill) ==
    IF size <= GET_SIZE(m, HDRP(oldptr)) - OVERHEAD
    THEN [bp |-> oldptr, m |-> m, brk |-> brk]
    ELSE Then(free(m, hp, oldptr), LAMBDA mf :
         Then(malloc(mf, brk, hp, size, fill), LAMBDA r :
         IF r.bp = NULL
         THEN [bp |-> NULL, m |-> mf, brk |-> brk]
         ELSE [bp |-> r.bp,
               m |-> memcpy(r.m, r.brk, r.bp, oldptr, size, fwd, fill),
               brk |-> r.brk]))

\* Variant of realloc: the old block is freed before its bytes are copied.
realloc_frees_before_copy(m, brk, hp, oldptr, size, fwd, fill) ==
    IF size <= GET_SIZE(m, HDRP(oldptr)) - OVERHEAD
    THEN [bp |-> oldptr, m |-> m, brk |-> brk]
    ELSE Then(malloc(m, brk, hp, size, fill), LAMBDA r :
         IF r.bp = NULL
         THEN [bp |-> NULL, m |-> m, brk |-> brk]
         ELSE Then(free(r.m, hp, oldptr), LAMBDA mf :
              [bp |-> r.bp,
               m |-> memcpy(mf, r.brk, r.bp, oldptr, size, fwd, fill),
               brk |-> r.brk]))

\* realloc(oldptr, size) for oldptr # NULL and size # 0: the pointer
\* returned and the heap it leaves.
realloc(m, brk, hp, oldptr, size, fwd, fill) ==
    IF size <= GET_SIZE(m, HDRP(oldptr)) - OVERHEAD
    THEN [bp |-> oldptr, m |-> m, brk |-> brk]
    ELSE Then(malloc(m, brk, hp, size, fill), LAMBDA r :
         IF r.bp = NULL
         THEN [bp |-> NULL, m |-> m, brk |-> brk]
         ELSE Then(memcpy(r.m, r.brk, r.bp, oldptr, size, fwd, fill),
                   LAMBDA mc :
              [bp |-> r.bp, m |-> free(mc, hp, oldptr), brk |-> r.brk]))

Drop(f, p) == [q \in DOMAIN f \ {p} |-> f[q]]

\* The twelve PUTs that clear the bucket heads.
RECURSIVE clear_lists(_, _, _)
clear_lists(m, hp, i) ==
    IF i >= NO_OF_LISTS THEN m
    ELSE clear_lists(PUT(m, hp + find_list(i), NULL), hp, i + 1)

\* Variant of mm_init_rest: the first epilogue header has no P flag.
mm_init_rest_epilogue_unflagged(m1, brk1, hp, s2, fill) ==
    IF s2.ret = NULL
    THEN [st |-> "init_failed", m |-> m1, brk |-> brk1, hp |-> hp,
          hs |-> s2.ret]
    ELSE IF s2.ret = SBRK_ERR
    THEN [st |-> "undefined", m |-> m1, brk |-> brk1, hp |-> hp,
          hs |-> s2.ret]
    ELSE Then(PUT_4(s2.m, s2.ret, 0), LAMBDA m2 :
         Then(PUT_4(m2, s2.ret + WSIZE, PACK(DSIZE, 1)), LAMBDA m3 :
         Then(PUT_4(m3, s2.ret + (2 * WSIZE), PACK(DSIZE, 1)), LAMBDA m4 :
         Then(PUT_4(m4, s2.ret + (3 * WSIZE), PACK(0, ALLOC)), LAMBDA m5 :
         Then(extend_heap(m5, s2.brk, hp, CHUNKSIZE, fill), LAMBDA e :
         IF e.bp = NULL
         THEN [st |-> "init_failed", m |-> m5, brk |-> s2.brk, hp |-> hp,
               hs |-> s2.ret + DSIZE]
         ELSE [st |-> "ready", m |-> e.m, brk |-> e.brk, hp |-> hp,
               hs |-> s2.ret + DSIZE])))))

\* mm_init from its second mem_sbrk on; hp is heap_ptr, s2 what mem_sbrk
\* answered.  st is "ready", "init_failed" (mm_init returns -1) or
\* "undefined" (a store through the error value).
mm_init_rest(m1, brk1, hp, s2, fill) ==
    IF s2.ret = NULL
    THEN [st |-> "init_failed", m |-> m1, brk |-> brk1, hp |-> hp,
          hs |-> s2.ret]
    ELSE IF s2.ret = SBRK_ERR
    THEN [st |-> "undefined", m |-> m1, brk |-> brk1, hp |-> hp,
          hs |-> s2.ret]
    ELSE Then(PUT_4(s2.m, s2.ret, 0), LAMBDA m2 :
         Then(PUT_4(m2, s2.ret + WSIZE, PACK(DSIZE, 1)), LAMBDA m3 :
         Then(PUT_4(m3, s2.ret + (2 * WSIZE), PACK(DSIZE, 1)), LAMBDA m4 :
         Then(PUT_4(m4, s2.ret + (3 * WSIZE), PACK(0, BitOr(PREV_ALLOC, ALLOC))),
              LAMBDA m5 :
         Then(extend_heap(m5, s2.brk, hp, CHUNKSIZE, fill), LAMBDA e :
         IF e.bp = NULL
         THEN [st |-> "init_failed", m |-> m5, brk |-> s2.brk, hp |-> hp,
               hs |-> s2.ret + DSIZE]
         ELSE [st |-> "ready", m |-> e.m, brk |-> e.brk, hp |-> hp,
               hs |-> s2.ret + DSIZE])))))

\* mm_init(): the state it leaves.  mem_sbrk's error value is not NULL, so
\* the tests against NULL let it through and the stores go through it.
mm_init_run(m, brk, fill) ==
    Then(mem_sbrk(m, brk, NO_OF_LISTS * DSIZE, fill), LAMBDA s1 :
    IF s1.ret = NULL
    THEN [st |-> "init_failed", m |-> m, brk |-> brk, hp |-> s1.ret,
          hs |-> NULL]
    ELSE IF s1.ret = SBRK_ERR
    THEN [st |-> "undefined", m |-> m, brk |-> brk, hp |-> s1.ret,
          hs |-> NULL]
    ELSE Then(clear_lists(s1.m, s1.ret, 0), LAMBDA m1 :
         mm_init_rest(m1, s1.brk, s1.ret,
                      mem_sbrk(m1, s1.brk, 4 * WSIZE, fill), fill)))

(* ------------------------ consistency checker ------------------------- *)

\* Iterations after which a loop of the checker is taken not to end: each
\* pass of a loop that ends visits another block or list node, and these
\* lie at distinct multiples of 8 in the heap.
LoopFuel(brk) == (brk - mem_heap_lo) \div DSIZE

check_alloc_blk(brk, blk) ==
    IF ~in_heap(brk, blk) THEN 1
    ELSE IF ~aligned(blk) THEN 1
    ELSE 0

check_free_blk(m, brk, blk) ==
    IF ~in_heap(brk, blk) THEN 1
    ELSE IF ~aligned(blk) THEN 1
    ELSE IF GET(m, NEXT_FREE(blk)) # NULL
            /\ GET(m, PREV_FREE(GET(m, NEXT_FREE(blk)))) # blk THEN 1
    ELSE IF GET(m, PREV_FREE(blk)) # NULL
            /\ GET(m, NEXT_FREE(GET(m, PREV_FREE(blk)))) # blk THEN 1
    ELSE IF GET_4(m, HDRP(NEXT_BLKP(m, blk))) # 1
            /\ GET_4(m, HDRP(NEXT_BLKP(m, blk))) # 3
            /\ GET_ALLOC(m, HDRP(NEXT_BLKP(m, blk))) = 0 THEN 1
    ELSE IF GET_4(m, HDRP(blk)) # GET_4(m, FTRP(m, blk)) THEN 1
    ELSE 0

\* The inner while loop of check_free_blk_count: nodes from bp to NULL.
RECURSIVE count_list(_, _, _)
count_list(m, bp, fuel) ==
    IF bp = NULL THEN 0
    ELSE IF fuel = 0 THEN -1
    ELSE Then(count_list(m, GET(m, NEXT_FREE(bp)), fuel - 1), LAMBDA n :
         IF n < 0 THEN -1 ELSE n + 1)

\* The for loop of check_free_blk_count over the lists from i on.
RECURSIVE count_lists(_, _, _, _)
count_lists(m, brk, hp, i) ==
    IF i >= NO_OF_LISTS THEN 0
    ELSE Then(count_list(m, GET(m, NEXT_FREE(hp + find_list(i))),
                         LoopFuel(brk)), LAMBDA n :
         Then(count_lists(m, brk, hp, i + 1), LAMBDA r :
         IF n < 0 \/ r < 0 THEN -1 ELSE n + r))

\* The block-wise while loop of check_free_blk_count.
RECURSIVE count_heap(_, _, _)
count_heap(m, blk, fuel) ==
    IF GET_4(m, HDRP(blk)) = 1 \/ GET_4(m, HDRP(blk)) = 3 THEN 0
    ELSE IF fuel = 0 THEN -1
    ELSE Then(count_heap(m, NEXT_BLKP(m, blk), fuel - 1), LAMBDA n :
         IF n < 0 THEN -1
         ELSE IF GET_ALLOC(m, HDRP(blk)) = 0 THEN n + 1 ELSE n)

\* 0: the counts agree; 1: they differ; 2: a loop does not end.
check_free_blk_count(m, brk, hp) ==
    Then(count_lists(m, brk, hp, 0), LAMBDA cnt_ptr :
    Then(count_heap(m, (NO_OF_LISTS * DSIZE) + (2 * DSIZE) + hp, LoopFuel(brk)),
         LAMBDA cnt_heap :
    IF cnt_ptr < 0 \/ cnt_heap < 0 THEN 2
    ELSE IF cnt_heap # cnt_ptr THEN 1 ELSE 0))

\* The while loop of check_for_cycle for one list.  0: left the loop;
\* 1: hare met tortoise; 2: the loop does not end.
RECURSIVE cycle_loop(_, _, _, _)
cycle_loop(m, hare, tortoise, fuel) ==
    IF ~(hare # NULL /\ tortoise # NULL) THEN 0
    ELSE IF fuel = 0 THEN 2
    ELSE Then(GET(m, NEXT_FREE(hare)), LAMBDA h :
         Then(IF h # NULL THEN GET(m, NEXT_FREE(h)) ELSE tortoise, LAMBDA t :
         IF h = t THEN 1 ELSE cycle_loop(m, h, t, fuel - 1)))

RECURSIVE check_for_cycle_from(_, _, _, _)
check_for_cycle_from(m, brk, hp, i) ==
    IF i >= NO_OF_LISTS THEN 0
    ELSE Then(cycle_loop(m, hp + find_list(i), hp + find_list(i),
                         LoopFuel(brk)), LAMBDA r :
         IF r # 0 THEN r ELSE check_for_cycle_from(m, brk, hp, i + 1))

check_for_cycle(m, brk, hp) == check_for_cycle_from(m, brk, hp, 0)

\* The while loop of check_seg_lists for one list.
RECURSIVE seg_list_loop(_, _, _, _, _)
seg_list_loop(m, list_p, min_size, max_size, fuel) ==
    IF list_p = NULL THEN 0
    ELSE IF fuel = 0 THEN 2
    ELSE IF ~(min_size < GET_SIZE(m, HDRP(list_p))
              /\ (max_size < 0 \/ GET_SIZE(m, HDRP(list_p)) <= max_size))
    THEN 1
    ELSE seg_list_loop(m, GET(m, NEXT_FREE(list_p)), min_size, max_size,
                       fuel - 1)

\* max_size = ~0 (every bit set: no upper limit) is written -1.
RECURSIVE check_seg_lists_from(_, _, _, _)
check_seg_lists_from(m, brk, hp, i) ==
    IF i >= NO_OF_LISTS THEN 0
    ELSE LET min_size == IF i = 0 THEN 0
                         ELSE IF i = 11 THEN LIST10_SIZE
                         ELSE get_list_size(i - 1)
             max_size == IF i = 0 THEN LIST0_SIZE
                         ELSE IF i = 11 THEN -1
                         ELSE get_list_size(i)
         IN  Then(seg_list_loop(m, GET(m, hp + find_list(i)), min_size,
                                max_size, LoopFuel(brk)), LAMBDA r :
             IF r # 0 THEN r ELSE check_seg_lists_from(m, brk, hp, i + 1))

check_seg_lists(m, brk, hp) == check_seg_lists_from(m, brk, hp, 0)

\* The block-wise while loop of mm_checkheap.  0: every block passed;
\* 1: one failed; 2: the loop does not end.
RECURSIVE checkheap_walk(_, _, _, _)
checkheap_walk(m, brk, blk, fuel) ==
    IF GET_4(m, HDRP(blk)) = 1 \/ GET_4(m, HDRP(blk)) = 3
    THEN IF GET_SIZE(m, HDRP(blk)) # 0 \/ GET_ALLOC(m, HDRP(blk)) = 0
         THEN 1 ELSE 0
    ELSE IF fuel = 0 THEN 2
    ELSE IF GET_ALLOC(m, HDRP(blk)) = 0 /\ check_free_blk(m, brk, blk) # 0
    THEN 1
    ELSE IF GET_ALLOC(m, HDRP(blk)) # 0 /\ check_alloc_blk(brk, blk) # 0
    THEN 1
    ELSE checkheap_walk(m, brk, NEXT_BLKP(m, blk), fuel - 1)

\* mm_checkheap: 0 for no error, 1 for an error, 2 when it does not return.
mm_checkheap(m, brk, hp, hs) ==
    IF GET_SIZE(m, HDRP(hs)) # DSIZE \/ GET_ALLOC(m, HDRP(hs)) = 0 THEN 1
    ELSE IF GET_SIZE(m, hs) # DSIZE \/ GET_ALLOC(m, hs) = 0 THEN 1
    ELSE IF GET_ALLOC(m, HDRP((NO_OF_LISTS * DSIZE) + (2 * DSIZE) + hp)) = 0
            /\ check_free_blk(m, brk, (NO_OF_LISTS * DSIZE) + (2 * DSIZE) + hp)
               # 0
    THEN 1
    ELSE Then(checkheap_walk(m, brk, (NO_OF_LISTS * DSIZE) + (2 * DSIZE) + hp,
                             LoopFuel(brk)), LAMBDA w :
         IF w # 0 THEN w
         ELSE Then(check_for_cycle(m, brk, hp), LAMBDA c :
              IF c # 0 THEN c
              ELSE Then(check_seg_lists(m, brk, hp), LAMBDA g :
                   IF g # 0 THEN g
                   ELSE check_free_blk_count(m, brk, hp))))

(* ------------------------- tsh: the job list -------------------------- *)

MAXJOBS == 16
UNDEF == 0
FG == 1
BG == 2
ST == 3

\* A pointer &job_list[k - 1] is the slot number k; NULL is 0.  The cmdline
\* field of a job is left out: nothing reads it but printf.

\* The lowest slot of S, NULL when S is empty: where a loop over
\* i = 0 .. MAXJOBS - 1 that returns at its first match stops.
FirstSlot(S) == IF S = {} THEN NULL ELSE CHOOSE i \in S : \A j \in S : i <= j

clearjob == [pid |-> 0, jid |-> 0, state |-> UNDEF]

initjobs == [k \in 1 .. MAXJOBS |-> clearjob]

maxjid(jl) ==
    LET J == {jl[k].jid : k \in 1 .. MAXJOBS} \cup {0}
    IN  CHOOSE x \in J : \A y \in J : y <= x

\* addjob: its return value, the job list and nextjid it leaves.
addjob(jl, nj, p, state) ==
    LET i == FirstSlot({k \in 1 .. MAXJOBS : jl[k].pid = 0})
    IN  IF p < 1 \/ i = NULL THEN [ret |-> 0, jl |-> jl, nextjid |-> nj]
        ELSE [ret |-> 1,
              jl |-> [jl EXCEPT ![i] = [pid |-> p, jid |-> nj, state |-> state]],
              nextjid |-> IF nj + 1 > MAXJOBS THEN 1 ELSE nj + 1]

\* deletejob: its return value, the job list and nextjid it leaves.
deletejob(jl, nj, p) ==
    LET i == FirstSlot({k \in 1 .. MAXJOBS : jl[k].pid = p})
    IN  IF p < 1 \/ i = NULL THEN [ret |-> 0, jl |-> jl, nextjid |-> nj]
        ELSE [ret |-> 1,
              jl |-> [jl EXCEPT ![i] = clearjob],
              nextjid |-> maxjid([jl EXCEPT ![i] = clearjob]) + 1]

fgpid(jl) ==
    LET i == FirstSlot({k \in 1 .. MAXJOBS : jl[k].state = FG})
    IN  IF i = NULL THEN 0 ELSE jl[i].pid

getjobpid(jl, p) ==
    IF p < 1 THEN NULL ELSE FirstSlot({k \in 1 .. MAXJOBS : jl[k].pid = p})

getjobjid(jl, jid) ==
    IF jid < 1 THEN NULL ELSE FirstSlot({k \in 1 .. MAXJOBS : jl[k].jid = jid})

(* ------------------------------ actions ------------------------------- *)

\* No call yet, and what stays in last in a run that records no call.
NoCall == [op |-> "none", ptr |-> NULL, nmemb |-> 0, size |-> 0, ret |-> NULL]

\* The runs whose client follows a script; they keep every call made so
\* far in last.hist.
ScriptRuns == {"pairs", "row"}

\* No call yet, in a run that keeps every call.
NoCallYet ==
    [op |-> "none", ptr |-> NULL, nmemb |-> 0, size |-> 0, ret |-> NULL,
     hist |-> <<>>]

\* The record of a call, kept only in the runs that record calls.
Seen(op, ptr, nmemb, size, ret) ==
    IF run = "plain" THEN last
    ELSE IF run \in ScriptRuns
    THEN [op |-> op, ptr |-> ptr, nmemb |-> nmemb, size |-> size, ret |-> ret,
          hist |-> Append(last.hist,
                          [op |-> op, ptr |-> ptr, size |-> size,
                           ret |-> ret])]
    ELSE [op |-> op, ptr |-> ptr, nmemb |-> nmemb, size |-> size, ret |-> ret]

\* The byte counts the client of this run asks malloc for.
RequestSizes ==
    IF run = "plain" THEN Sizes
    ELSE IF run = "calls" THEN CallSizes
    ELSE IF run = "pairs" THEN PairSizes
    ELSE IF run \in {"fit", "damage"} THEN FitSizes
    ELSE IF run = "row" THEN RowSizes
    ELSE WrapSizes

\* The byte counts it asks realloc for.
ResizeSizes == IF run = "calls" THEN CallSizes ELSE Sizes

\* Most pointers the client of this run holds at once.
LiveLimit == IF run = "row" THEN 16 ELSE MaxLive

CallLimit ==
    IF run \in {"plain", "pairs", "fit", "damage"} THEN MaxCalls
    ELSE IF run = "row" THEN 1 + 16 + 8
    ELSE MaxWatched

Start(r) ==
    /\ mem = [a \in {} |-> 0]
    /\ mem_brk = mem_heap_lo
    /\ mem_max_addr \in {mem_heap_lo + n :
                            n \in IF r = "row" THEN {RowHeap} ELSE HeapLimits}
    /\ heap_ptr = NULL
    /\ heap_start = NULL
    /\ phase = "uninit"
    /\ live = [a \in {} |-> 0]
    /\ clash = FALSE
    /\ fresh \in FreshBytes
    /\ calls = 0
    /\ run = r
    /\ last = IF r \in ScriptRuns THEN NoCallYet ELSE NoCall
    /\ job_list = initjobs
    /\ nextjid = 1
    /\ pc = "prompt"
    /\ pid = 0
    /\ job_bg = NULL
    /\ child = [p \in Pids |-> "none"]

Init == Start("plain")

mm_init ==
    /\ phase = "uninit"
    /\ \E r \in {mm_init_run(mem, mem_brk, fresh)} :
        /\ phase' = r.st
        /\ mem' = r.m
        /\ mem_brk' = r.brk
        /\ heap_ptr' = r.hp
        /\ heap_start' = r.hs
        /\ last' = Seen("mm_init", NULL, 0, 0, IF r.st = "ready" THEN 0 ELSE -1)
        /\ UNCHANGED <<live, clash>>

Malloc ==
    /\ phase = "ready"
    /\ Cardinality(DOMAIN live) < LiveLimit
    /\ \E size \in RequestSizes :
        \E r \in {malloc(mem, mem_brk, heap_ptr, size, fresh)} :
            /\ mem' = r.m
            /\ mem_brk' = r.brk
            /\ live' = IF r.bp = NULL THEN live ELSE (r.bp :> size) @@ live
            /\ clash' = (clash \/ r.bp \in DOMAIN live)
            /\ last' = Seen("malloc", NULL, 0, size, r.bp)
            /\ UNCHANGED <<heap_ptr, heap_start, phase>>

Free ==
    /\ phase = "ready"
    /\ \E bp \in DOMAIN live \cup {NULL} :
        /\ mem' = free(mem, heap_ptr, bp)
        /\ live' = Drop(live, bp)
        /\ last' = Seen("free", bp, 0, 0, NULL)
        /\ UNCHANGED <<mem_brk, heap_ptr, heap_start, phase, clash>>

\* Variant of Realloc: a size of 0 is not treated apart, so realloc(p, 0)
\* finds 0 <= oldsize and returns p with nothing freed.
Realloc_zero_not_apart ==
    /\ phase = "ready"
    /\ \E oldptr \in DOMAIN live \cup {NULL}, size \in ResizeSizes :
        /\ oldptr = NULL /\ size # 0 => Cardinality(DOMAIN live) < LiveLimit
        /\ UNCHANGED <<heap_ptr, heap_start, phase>>
        /\ \E r \in (IF oldptr = NULL
                      THEN {malloc(mem, mem_brk, heap_ptr, size, fresh)}
                      ELSE {realloc(mem, mem_brk, heap_ptr, oldptr, size,
                                    fwd, fresh) : fwd \in BOOLEAN}) :
            /\ mem' = r.m
            /\ mem_brk' = r.brk
            /\ live' = IF r.bp = NULL THEN live
                       ELSE (r.bp :> size) @@ Drop(live, oldptr)
            /\ clash' = (clash \/ (r.bp # oldptr /\ r.bp \in DOMAIN live))
            /\ last' = Seen("realloc", oldptr, 0, size, r.bp)

Realloc ==
    /\ phase = "ready"
    /\ \E oldptr \in DOMAIN live \cup {NULL}, size \in ResizeSizes :
        /\ oldptr = NULL /\ size # 0 => Cardinality(DOMAIN live) < LiveLimit
        /\ UNCHANGED <<heap_ptr, heap_start, phase>>
        /\ IF size = 0
           THEN /\ mem' = free(mem, heap_ptr, oldptr)
                /\ live' = Drop(live, oldptr)
                /\ last' = Seen("realloc", oldptr, 0, size, NULL)
                /\ UNCHANGED <<mem_brk, clash>>
           ELSE \E r \in (IF oldptr = NULL
                          THEN {malloc(mem, mem_brk, heap_ptr, size, fresh)}
                          ELSE {realloc(mem, mem_brk, heap_ptr, oldptr, size,
                                        fwd, fresh) : fwd \in BOOLEAN}) :
                /\ mem' = r.m
                /\ mem_brk' = r.brk
                /\ live' = IF r.bp = NULL THEN live
                           ELSE (r.bp :> size) @@ Drop(live, oldptr)
                /\ clash' = (clash \/ (r.bp # oldptr /\ r.bp \in DOMAIN live))
                /\ last' = Seen("realloc", oldptr, 0, size, r.bp)

Calloc ==
    /\ phase = "ready"
    /\ Cardinality(DOMAIN live) < LiveLimit
    /\ \E args \in CallocArgs :
        \E r \in {malloc(mem, mem_brk, heap_ptr, args[1] * args[2], fresh)} :
            IF r.bp = NULL /\ args[1] > 0
            \* *temp = 0 with temp = NULL
            THEN /\ phase' = "undefined"
                 /\ last' = Seen("calloc", NULL, args[1], args[2], NULL)
                 /\ UNCHANGED <<mem, mem_brk, heap_ptr, heap_start, live,
                                clash>>
            ELSE /\ mem' = calloc_zero(r.m, r.bp, args[1], args[2])
                 /\ mem_brk' = r.brk
                 /\ live' = IF r.bp = NULL THEN live
                            ELSE (r.bp :> (args[1] * args[2])) @@ live
                 /\ clash' = (clash \/ r.bp \in DOMAIN live)
                 /\ last' = Seen("calloc", NULL, args[1], args[2], r.bp)
                 /\ UNCHANGED <<heap_ptr, heap_start, phase>>

\* A public call: one more call made; the heap limit, the fresh byte value
\* and the kind of run are the environment's and never change.  A run ends
\* with its first request whose size is near the top of size_t.
Call(A) ==
    /\ calls < CallLimit
    /\ last.size >= 0
    /\ A
    /\ calls' = calls + 1
    /\ UNCHANGED <<mem_max_addr, fresh, run>>
    /\ UNCHANGED tsh_vars

Next ==
    \/ Call(mm_init)
    \/ Call(Malloc)
    \/ Call(Free)
    \/ Call(Realloc)
    \/ Call(Calloc)

Spec == Init /\ [][Next]_vars

\* The byte the client stores at offset i of a block it was given.
StampByte(i) == (171 + i) % 256

\* The client stores into every byte it asked for of one of its blocks.
Write ==
    /\ phase = "ready"
    /\ \E p \in DOMAIN live :
        /\ mem' = [a \in DOMAIN mem |->
                      IF a >= p /\ a < p + live[p]
                      THEN StampByte(a - p) ELSE mem[a]]
        /\ last' = Seen("write", p, 0, live[p], NULL)
        /\ UNCHANGED <<mem_brk, heap_ptr, heap_start, phase, live, clash>>

\* The same client with every call and its result recorded, and with its
\* stores into the blocks it holds.
CallInit == Start("calls")
CallNext == Next \/ Call(Write)
CallSpec == CallInit /\ [][CallNext]_vars

\* The two size classifiers on their own: the bucket table offset that
\* add_free_blk and rem_free_blk use for a block of s bytes (insert) and the
\* one find_fit starts its search at (search).
Classify ==
    /\ run = "classify"
    /\ \E s \in ClassSizes :
          last' = [op |-> "classify", size |-> s,
                   insert |-> find_list_by_size(s),
                   search |-> find_list(get_index(s))]
    /\ UNCHANGED <<mem, mem_brk, mem_max_addr, heap_ptr, heap_start, phase,
                   live, clash, fresh, calls, run>>
    /\ UNCHANGED tsh_vars

ClassInit == Start("classify") /\ mem_max_addr = mem_heap_lo + MaxHeap
ClassSpec == ClassInit /\ [][Classify]_vars

\* The client that calls malloc and free in any order, each call recorded.
FitNext == Call(mm_init) \/ Call(Malloc) \/ Call(Free)

FitInit == Start("fit")
FitSpec == FitInit /\ [][FitNext]_vars

\* The client that allocates up to MaxLive blocks and then only frees.
PairNext ==
    \/ Call(mm_init)
    \/ (last.op # "free" /\ Call(Malloc))
    \/ Call(Free)

PairInit == Start("pairs")
PairSpec == PairInit /\ [][PairNext]_vars

\* The place in last.hist of the malloc that returned ptr, less one: 1 for
\* the first block of the row.
RankOf(h, ptr) ==
    (CHOOSE k \in 2 .. 17 : h[k].op = "malloc" /\ h[k].ret = ptr) - 1

\* The row client's malloc: one of 16, all of the byte count of the first.
RowAlloc ==
    /\ Len(last.hist) < 17
    /\ Call(Malloc)
    /\ last'.size = last'.hist[2].size

\* The row client's free, once the 16 blocks are there: every other block,
\* from either end of the row.
RowFree ==
    /\ Len(last.hist) >= 17
    /\ Call(Free)
    /\ last'.ptr # NULL
    /\ IF last.op = "free"
       THEN RankOf(last.hist, last'.ptr) - RankOf(last.hist, last.ptr)
              \in {-2, 2}
       ELSE RankOf(last.hist, last'.ptr) \in {1, 2, 15, 16}

RowNext == Call(mm_init) \/ RowAlloc \/ RowFree

RowInit == Start("row")
RowSpec == RowInit /\ [][RowNext]_vars

\* The client whose malloc requests include sizes near the top of size_t.
WrapInit == Start("wrap")
WrapSpec == WrapInit /\ [][Next]_vars

(* ------------------------ tsh: shell and children --------------------- *)

\* A child is "none" (no such process), "running", "stopped_new" (stopped,
\* waitpid has not reported it yet), "stopped" (reported), or a zombie,
\* "exited" or "signaled".  Children keep the default signal dispositions.

\* kill(p, sig) for a child or its process group: SIGCONT resumes a stopped
\* child, SIGINT ends a running one, SIGTSTP stops a running one.  A
\* signal for a child in any other state changes nothing here (what a
\* stopped child does with it later is one of ChildExits, ChildStops).
kill(ch, p, sig) ==
    IF p \notin Pids THEN ch
    ELSE IF sig = "SIGCONT" /\ ch[p] \in {"stopped", "stopped_new"}
    THEN [ch EXCEPT ![p] = "running"]
    ELSE IF sig = "SIGINT" /\ ch[p] = "running"
    THEN [ch EXCEPT ![p] = "signaled"]
    ELSE IF sig = "SIGTSTP" /\ ch[p] = "running"
    THEN [ch EXCEPT ![p] = "stopped_new"]
    ELSE ch

\* The shell's main flow and its handlers run until a NULL job pointer is
\* dereferenced.
Alive == pc # "crashed"

\* Variant of sigs_blocked: the handlers are never held back.
sigs_never_blocked(at) == FALSE

\* SIGCHLD, SIGINT and SIGTSTP are blocked in the shell: eval is between
\* its sigprocmask(SIG_BLOCK) before fork and its sigprocmask(SIG_UNBLOCK)
\* after addjob.
sigs_blocked(at) == at \in {"forked_bg", "forked_fg"}

\* eval of a command line that is no builtin, first part: SIGCHLD, SIGINT
\* and SIGTSTP are blocked and the child is forked; the child unblocks
\* the signals and runs the program.
eval ==
    /\ pc = "prompt"
    /\ nextjid <= MaxJid
    /\ \E bg \in BOOLEAN, p \in Pids :
          /\ child[p] = "none"
          /\ pc' = IF bg THEN "forked_bg" ELSE "forked_fg"
          /\ pid' = p
          /\ child' = [child EXCEPT ![p] = "running"]
    /\ UNCHANGED <<job_list, nextjid, job_bg>>
    /\ UNCHANGED mm_vars

\* eval, second part: addjob as BG or FG, then the signals are unblocked.
eval_addjob ==
    /\ pc \in {"forked_bg", "forked_fg"}
    /\ \E a \in {addjob(job_list, nextjid, pid,
                        IF pc = "forked_bg" THEN BG ELSE FG)} :
          /\ job_list' = a.jl
          /\ nextjid' = a.nextjid
          /\ pc' = IF a.ret = 0 THEN "prompt"
                   ELSE IF pc = "forked_bg" THEN "eval_print"
                   ELSE "eval_wait"
          /\ pid' = IF a.ret = 0 THEN 0 ELSE pid
    /\ UNCHANGED <<job_bg, child>>
    /\ UNCHANGED mm_vars

\* eval, for a background job: the line printed with
\* getjobpid(job_list, pid)->jid, read through NULL when the job is gone.
eval_print ==
    /\ pc = "eval_print"
    /\ pc' = IF getjobpid(job_list, pid) = NULL THEN "crashed" ELSE "prompt"
    /\ pid' = 0
    /\ UNCHANGED <<job_list, nextjid, job_bg, child>>
    /\ UNCHANGED mm_vars

\* eval's wait loop, 'while (fgpid != 0 && getjobpid(pid)->state != ST)
\* sigsuspend': the step that leaves the loop, or that reads the state
\* through the NULL getjobpid returns for a job that is gone.
eval_wait ==
    /\ pc = "eval_wait"
    /\ IF fgpid(job_list) = 0 THEN pc' = "prompt"
       ELSE IF getjobpid(job_list, pid) = NULL THEN pc' = "crashed"
       ELSE /\ job_list[getjobpid(job_list, pid)].state = ST
            /\ pc' = "prompt"
    /\ pid' = 0
    /\ UNCHANGED <<job_list, nextjid, job_bg, child>>
    /\ UNCHANGED mm_vars

\* The job numbers typed after fg and bg.  Both the %jid and the pid form
\* of the argument end in getjobjid(job_list, number).
JobArgs == 1 .. MaxJid

\* builtin fg, up to the wait loop: look the job up.
builtin_fg ==
    /\ pc = "prompt"
    /\ \E n \in JobArgs :
          /\ getjobjid(job_list, n) # NULL
          /\ job_bg' = getjobjid(job_list, n)
    /\ pc' = "fg_wait"
    /\ UNCHANGED <<job_list, nextjid, pid, child>>
    /\ UNCHANGED mm_vars

\* builtin fg's wait loop, 'while (getjobpid(job_bg->pid)->state != ST &&
\* fgpid != 0) sigsuspend': the step that leaves the loop, or that reads
\* the state through NULL when the slot was cleared meanwhile.
builtin_fg_wait ==
    /\ pc = "fg_wait"
    /\ IF getjobpid(job_list, job_list[job_bg].pid) = NULL
       THEN pc' = "crashed" /\ job_bg' = NULL
       ELSE /\ \/ job_list[getjobpid(job_list, job_list[job_bg].pid)].state = ST
               \/ fgpid(job_list) = 0
            /\ pc' = "fg_resume"
            /\ UNCHANGED job_bg
    /\ UNCHANGED <<job_list, nextjid, pid, child>>
    /\ UNCHANGED mm_vars

\* builtin fg after the loop: job_bg->state = FG, SIGCONT to the job, and
\* back to the prompt.
builtin_fg_resume ==
    /\ pc = "fg_resume"
    /\ job_list' = [job_list EXCEPT ![job_bg].state = FG]
    /\ child' = kill(child, job_list[job_bg].pid, "SIGCONT")
    /\ pc' = "prompt"
    /\ job_bg' = NULL
    /\ UNCHANGED <<nextjid, pid>>
    /\ UNCHANGED mm_vars

\* builtin bg, first half: look the job up.
builtin_bg ==
    /\ pc = "prompt"
    /\ \E n \in JobArgs :
          /\ getjobjid(job_list, n) # NULL
          /\ job_bg' = getjobjid(job_list, n)
    /\ pc' = "bg_resume"
    /\ UNCHANGED <<job_list, nextjid, pid, child>>
    /\ UNCHANGED mm_vars

\* builtin bg, second half: job_bg->state = BG and SIGCONT to the job.
builtin_bg_resume ==
    /\ pc = "bg_resume"
    /\ job_list' = [job_list EXCEPT ![job_bg].state = BG]
    /\ child' = kill(child, job_list[job_bg].pid, "SIGCONT")
    /\ pc' = "prompt"
    /\ job_bg' = NULL
    /\ UNCHANGED <<nextjid, pid>>
    /\ UNCHANGED mm_vars

\* sigchld_handler's loop over the children S that waitpid reports, lowest
\* pid first (the outcome does not depend on the order): a zombie's job is
\* deleted, a stopped child's job becomes ST.
RECURSIVE reap(_, _, _, _)
reap(jl, nj, ch, S) ==
    IF S = {} THEN [jl |-> jl, nextjid |-> nj, child |-> ch, ok |-> TRUE]
    ELSE LET p == CHOOSE x \in S : \A y \in S : x <= y
         IN  IF ch[p] = "stopped_new"
             THEN IF getjobpid(jl, p) = NULL
                  THEN [jl |-> jl, nextjid |-> nj, child |-> ch, ok |-> FALSE]
                  ELSE reap([jl EXCEPT ![getjobpid(jl, p)].state = ST], nj,
                            [ch EXCEPT ![p] = "stopped"], S \ {p})
             ELSE reap(deletejob(jl, nj, p).jl, deletejob(jl, nj, p).nextjid,
                       [ch EXCEPT ![p] = "none"], S \ {p})

\* SIGCHLD is delivered: some child stopped or ended since the last
\* waitpid.  The handler runs to its end before the main flow goes on.
sigchld_handler ==
    /\ Alive
    /\ ~sigs_blocked(pc)
    /\ {p \in Pids : child[p] \in {"stopped_new", "exited", "signaled"}} # {}
    /\ \E r \in {reap(job_list, nextjid, child,
                       {p \in Pids : child[p] \in
                                        {"stopped_new", "exited", "signaled"}})} :
          /\ job_list' = r.jl
          /\ nextjid' = r.nextjid
          /\ child' = r.child
          /\ pc' = IF r.ok THEN pc ELSE "crashed"
    /\ UNCHANGED <<pid, job_bg>>
    /\ UNCHANGED mm_vars

\* ctrl-c: SIGINT is delivered and passed on to the foreground job's
\* process group.
sigint_handler ==
    /\ Alive
    /\ ~sigs_blocked(pc)
    /\ fgpid(job_list) # 0
    /\ child' = kill(child, fgpid(job_list), "SIGINT")
    /\ UNCHANGED <<job_list, nextjid, pc, pid, job_bg>>
    /\ UNCHANGED mm_vars

\* ctrl-z: SIGTSTP is delivered and passed on to the foreground job's
\* process group.
sigtstp_handler ==
    /\ Alive
    /\ ~sigs_blocked(pc)
    /\ fgpid(job_list) # 0
    /\ child' = kill(child, fgpid(job_list), "SIGTSTP")
    /\ UNCHANGED <<job_list, nextjid, pc, pid, job_bg>>
    /\ UNCHANGED mm_vars

\* A running child ends by itself.
ChildExits ==
    /\ \E p \in Pids :
          /\ child[p] = "running"
          /\ child' = [child EXCEPT ![p] = "exited"]
    /\ UNCHANGED <<job_list, nextjid, pc, pid, job_bg>>
    /\ UNCHANGED mm_vars

\* A running child is stopped by a signal that is not the shell's.
ChildStops ==
    /\ \E p \in Pids :
          /\ child[p] = "running"
          /\ child' = [child EXCEPT ![p] = "stopped_new"]
    /\ UNCHANGED <<job_list, nextjid, pc, pid, job_bg>>
    /\ UNCHANGED mm_vars

TshNext ==
    \/ eval
    \/ eval_addjob
    \/ eval_print
    \/ eval_wait
    \/ builtin_fg
    \/ builtin_fg_wait
    \/ builtin_fg_resume
    \/ builtin_bg
    \/ builtin_bg_resume
    \/ sigchld_handler
    \/ sigint_handler
    \/ sigtstp_handler
    \/ ChildExits
    \/ ChildStops

TshInit == Start("tsh") /\ mem_max_addr = mem_heap_lo + MaxHeap
TshSpec == TshInit /\ [][TshNext]_vars

(* ------------------- the checker on a damaged heap -------------------- *)

\* The client of this run allocates and frees, then one stray store
\* damages the heap, and mm_checkheap is called.  After the stray store
\* and after mm_checkheap no other call is made.
Undamaged == last.op \in {"none", "mm_init", "malloc", "free"}

\* The bucket list that starts at head in the heap m, up to fuel nodes.
RECURSIVE NodesFrom(_, _, _)
NodesFrom(m, head, fuel) ==
    IF head = NULL \/ fuel = 0 THEN << >>
    ELSE <<head>> \o NodesFrom(m, GET(m, NEXT_FREE(head)), fuel - 1)

\* The blocks from blk up to the epilogue header, as mm_checkheap walks.
RECURSIVE WalkFrom(_, _, _)
WalkFrom(m, blk, fuel) ==
    IF GET_4(m, HDRP(blk)) = 1 \/ GET_4(m, HDRP(blk)) = 3 \/ fuel = 0
    THEN << >>
    ELSE <<blk>> \o WalkFrom(m, NEXT_BLKP(m, blk), fuel - 1)

\* A stray store inverts the P flag in the header of a block; for a free
\* block the same store hits the footer.
FlipP ==
    /\ phase = "ready" /\ Undamaged
    /\ \E k \in 1 .. Len(WalkFrom(mem, (NO_OF_LISTS * DSIZE) + (2 * DSIZE)
                                         + heap_ptr, LoopFuel(mem_brk))) :
          \E blk \in {WalkFrom(mem, (NO_OF_LISTS * DSIZE) + (2 * DSIZE)
                                      + heap_ptr, LoopFuel(mem_brk))[k]} :
          \E w \in {IF GET_PREV_ALLOC(mem, HDRP(blk)) = 0
                     THEN GET_4(mem, HDRP(blk)) + PREV_ALLOC
                     ELSE GET_4(mem, HDRP(blk)) - PREV_ALLOC} :
             /\ mem' = IF GET_ALLOC(mem, HDRP(blk)) = 0
                       THEN PUT_4(PUT_4(mem, FTRP(mem, blk), w), HDRP(blk), w)
                       ELSE PUT_4(mem, HDRP(blk), w)
             /\ last' = Seen("flip_p", blk, 0, 0, NULL)
    /\ UNCHANGED <<mem_brk, mem_max_addr, heap_ptr, heap_start, phase, live,
                   clash, fresh, calls, run>>
    /\ UNCHANGED tsh_vars

\* Stray stores close a bucket list to a ring: the next link of its last
\* node is set to its head and the prev link of the head to the last node.
Ring ==
    /\ phase = "ready" /\ Undamaged
    /\ \E i \in 0 .. (NO_OF_LISTS - 1) :
          \E L \in {NodesFrom(mem, GET(mem, heap_ptr + find_list(i)),
                               LoopFuel(mem_brk))} :
             /\ L # << >>
             /\ mem' = PUT(PUT(mem, NEXT_FREE(L[Len(L)]), L[1]),
                           PREV_FREE(L[1]), L[Len(L)])
             /\ last' = Seen("ring", L[1], 0, 0, NULL)
    /\ UNCHANGED <<mem_brk, mem_max_addr, heap_ptr, heap_start, phase, live,
                   clash, fresh, calls, run>>
    /\ UNCHANGED tsh_vars

\* Stray stores put a block the client holds in the place of the head of
\* the bucket list for its size: the table slot points to it, it gets the
\* head's next link and a NULL prev link, the second node's prev link
\* points to it, and the old head is left with NULL links.
Relink ==
    /\ phase = "ready" /\ Undamaged
    /\ \E x \in DOMAIN live :
          \E slot \in {heap_ptr + find_list_by_size(GET_SIZE(mem, HDRP(x)))} :
          \E head \in {GET(mem, slot)} :
          \E second \in {IF head = NULL THEN NULL
                          ELSE GET(mem, NEXT_FREE(head))} :
             /\ head # NULL
             /\ GET_SIZE(mem, HDRP(x)) >= MIN_BLOCK_SIZE
             /\ mem' = Then(PUT(mem, slot, x), LAMBDA m1 :
                       Then(PUT(m1, NEXT_FREE(x), second), LAMBDA m2 :
                       Then(PUT(m2, PREV_FREE(x), NULL), LAMBDA m3 :
                       Then(IF second = NULL THEN m3
                            ELSE PUT(m3, PREV_FREE(second), x), LAMBDA m4 :
                       PUT(PUT(m4, NEXT_FREE(head), NULL),
                           PREV_FREE(head), NULL)))))
             /\ last' = Seen("relink", x, 0, 0, NULL)
    /\ UNCHANGED <<mem_brk, mem_max_addr, heap_ptr, heap_start, phase, live,
                   clash, fresh, calls, run>>
    /\ UNCHANGED tsh_vars

\* mm_checkheap is called; what it returns is recorded.
Checkheap ==
    /\ phase = "ready"
    /\ last.op # "mm_checkheap"
    /\ last' = Seen("mm_checkheap", NULL, 0, 0,
                    mm_checkheap(mem, mem_brk, heap_ptr, heap_start))
    /\ UNCHANGED <<mem, mem_brk, mem_max_addr, heap_ptr, heap_start, phase,
                   live, clash, fresh, calls, run>>
    /\ UNCHANGED tsh_vars

DamageNext ==
    \/ Undamaged /\ Call(mm_init)
    \/ Undamaged /\ Call(Malloc)
    \/ Undamaged /\ Call(Free)
    \/ FlipP
    \/ Ring
    \/ Relink
    \/ Checkheap

DamageInit == Start("damage") /\ mem_max_addr = mem_heap_lo + MaxHeap
DamageSpec == DamageInit /\ [][DamageNext]_vars

(* ----------------------- reading the heap ----------------------------- *)

\* What follows reads the heap the way the data model describes it, with
\* no use of the allocator's own macros: a word outside the heap reads 0.

Ready == phase = "ready"

WordAt(p) ==
    IF p >= mem_heap_lo /\ p + 3 < mem_brk
    THEN mem[p] + 256 * mem[p + 1] + 65536 * mem[p + 2] + 16777216 * mem[p + 3]
    ELSE 0

\* An 8-byte slot as an address; -2 when its upper half is not zero.
SlotAt(p) == IF WordAt(p + 4) = 0 THEN WordAt(p) ELSE -2

HeaderOf(bp) == WordAt(bp - 4)
SizeOf(bp) == (HeaderOf(bp) \div 8) * 8
IsAlloc(bp) == HeaderOf(bp) % 2 = 1
PrevAllocFlag(bp) == (HeaderOf(bp) \div 2) % 2 = 1
FooterOf(bp) == WordAt(bp + SizeOf(bp) - 8)

\* The first real block: bucket table (12 x 8), pad, prologue header and
\* footer, then the block's own header.
FirstBlock == heap_ptr + 96 + 4 + 4 + 4 + 4

\* The blocks met by advancing by the header size, up to a size of 0.
RECURSIVE BlocksFrom(_)
BlocksFrom(bp) ==
    IF SizeOf(bp) <= 0 THEN << >> ELSE <<bp>> \o BlocksFrom(bp + SizeOf(bp))

\* Where that walk stops.
RECURSIVE EndFrom(_)
EndFrom(bp) == IF SizeOf(bp) <= 0 THEN bp ELSE EndFrom(bp + SizeOf(bp))

RealBlocks == BlocksFrom(FirstBlock)
Epilogue == EndFrom(FirstBlock)
\* Prologue, real blocks, epilogue, in address order.
AllBlocks == <<heap_start>> \o RealBlocks \o <<Epilogue>>
FreeBlocks ==
    LET B == RealBlocks
    IN  {B[k] : k \in {j \in DOMAIN B : ~IsAlloc(B[j])}}

BucketHead(i) == SlotAt(heap_ptr + 8 * i)
NextLink(bp) == SlotAt(bp)
PrevLink(bp) == SlotAt(bp + 8)

\* More nodes than the heap has room for free blocks means a cycle.
ListFuel == (mem_brk - mem_heap_lo) \div 24 + 1

RECURSIVE ListFrom(_, _)
ListFrom(p, fuel) ==
    IF p = NULL \/ fuel = 0 \/ p < mem_heap_lo \/ p >= mem_brk THEN << >>
    ELSE <<p>> \o ListFrom(NextLink(p), fuel - 1)

\* What ends the walk of a list: NULL when the list is finite and in the heap.
RECURSIVE ListEnd(_, _)
ListEnd(p, fuel) ==
    IF p = NULL \/ fuel = 0 \/ p < mem_heap_lo \/ p >= mem_brk THEN p
    ELSE ListEnd(NextLink(p), fuel - 1)

Bucket(i) == ListFrom(BucketHead(i), ListFuel)

\* The twelve bucket lists.
Buckets == [i \in 0 .. 11 |-> Bucket(i)]

\* The places (bucket, position) where the lists L hold bp.
PlacesOf(L, bp) ==
    {ik \in UNION {{<<i, k>> : k \in DOMAIN L[i]} : i \in DOMAIN L} :
        L[ik[1]][ik[2]] = bp}

(* ------------------------------ claims -------------------------------- *)

\* C1: the requested payload ranges [p, p+n) of any two distinct live
\* pointers are disjoint, and no call hands out a pointer that is live.
C1_LivePayloadsDisjoint ==
    Ready =>
        /\ ~clash
        /\ \A p \in DOMAIN live : \A q \in DOMAIN live :
              p # q => (p + live[p] <= q \/ q + live[q] <= p)

\* C1 witness: three pointers are live, one of them in memory obtained by
\* a heap extension after mm_init.
C1_Witness ==
    /\ Ready
    /\ Cardinality(DOMAIN live) = 3
    /\ \E p \in DOMAIN live : p >= mem_heap_lo + 112 + CHUNKSIZE

\* C2: every pointer the allocator returned is a multiple of 8 and
\* satisfies lo() <= p < hi().
C2_PointersAlignedInHeap ==
    Ready =>
        \A p \in DOMAIN live :
            p % 8 = 0 /\ mem_heap_lo <= p /\ p < mem_brk - 1

\* C2 witness: a live pointer whose block is the last one before the
\* epilogue of an extended heap.
C2_Witness ==
    /\ Ready
    /\ mem_brk > mem_heap_lo + 112 + CHUNKSIZE
    /\ \E p \in DOMAIN live : p + SizeOf(p) = Epilogue

\* C3: for every block B with physical successor B' (the epilogue
\* included), B' has P set exactly when B has A set.
C3_PrevAllocMatches ==
    Ready =>
        LET B == AllBlocks
        IN  \A k \in 1 .. (Len(B) - 1) :
                PrevAllocFlag(B[k + 1]) = IsAlloc(B[k])

\* C3 witness: a free real block is followed by an allocated real block
\* (whose P flag therefore has to be 0), and an allocated one by a free one.
C3_Witness ==
    /\ Ready
    /\ \E k \in 1 .. (Len(RealBlocks) - 1) :
          ~IsAlloc(RealBlocks[k]) /\ IsAlloc(RealBlocks[k + 1])
    /\ \E k \in 1 .. (Len(RealBlocks) - 1) :
          IsAlloc(RealBlocks[k]) /\ ~IsAlloc(RealBlocks[k + 1])

\* C4: no two physically adjacent blocks are both free.
C4_NoAdjacentFree ==
    Ready =>
        LET B == RealBlocks
        IN  \A k \in 1 .. (Len(B) - 1) : IsAlloc(B[k]) \/ IsAlloc(B[k + 1])

\* C4 witness: after a heap extension the heap is one single free block
\* again (every block was released and merged across the chunk boundary).
C4_Witness ==
    /\ Ready
    /\ mem_brk = mem_heap_lo + 112 + 2 * CHUNKSIZE
    /\ Len(RealBlocks) = 1
    /\ ~IsAlloc(RealBlocks[1])

\* C5: every block with A = 0 is listed exactly once, in the bucket its
\* size is classified into, and every listed node is a block with A = 0.
C5_FreeBlocksIndexed ==
    Ready =>
        LET L == Buckets
            F == FreeBlocks
        IN  /\ \A bp \in F :
                  /\ Cardinality(PlacesOf(L, bp)) = 1
                  /\ \A ik \in PlacesOf(L, bp) : ik[1] = get_index(SizeOf(bp))
            /\ \A i \in 0 .. 11 : \A k \in DOMAIN L[i] : L[i][k] \in F

\* C5 witness: three blocks are free at once, in more than one bucket.
C5_Witness ==
    /\ Ready
    /\ Cardinality({i \in 0 .. 11 : Bucket(i) # << >>}) >= 2
    /\ Cardinality(FreeBlocks) >= 3

\* C6: every bucket list ends in NULL without repeating a node, its head
\* has prev = NULL, and next and prev links are reciprocal.
C6_ListsWellFormed ==
    Ready =>
        \A i \in 0 .. 11 :
            LET L == Bucket(i)
            IN  /\ ListEnd(BucketHead(i), ListFuel) = NULL
                /\ \A j \in DOMAIN L : \A k \in DOMAIN L :
                      j # k => L[j] # L[k]
                /\ L # << >> => PrevLink(L[1]) = NULL
                /\ \A k \in 2 .. Len(L) : NextLink(PrevLink(L[k])) = L[k]
                /\ \A k \in 1 .. (Len(L) - 1) : PrevLink(NextLink(L[k])) = L[k]

\* C6 witness: one bucket lists three blocks.
C6_Witness == Ready /\ \E i \in 0 .. 11 : Len(Bucket(i)) >= 3

\* C7: every free block's footer word (its last 4 bytes) equals its header
\* word.
C7_FooterEqualsHeader ==
    Ready => \A bp \in FreeBlocks : FooterOf(bp) = HeaderOf(bp)

\* C7 witness: a free block made by merging, larger than one chunk, and a
\* free block made by a split exist together.
C7_Witness ==
    /\ Ready
    /\ \E bp \in FreeBlocks : SizeOf(bp) > CHUNKSIZE
    /\ Cardinality(FreeBlocks) >= 2

\* C8: every block's size is a positive multiple of 8, at least 24 if the
\* block is free and at least 8 if allocated, and bit 2 of its header is 0.
C8_BlockSizes ==
    Ready =>
        /\ LET B == RealBlocks
           IN  \A k \in DOMAIN B :
                  /\ SizeOf(B[k]) > 0
                  /\ SizeOf(B[k]) % 8 = 0
                  /\ SizeOf(B[k]) >= (IF IsAlloc(B[k]) THEN 8 ELSE 24)
                  /\ (HeaderOf(B[k]) \div 4) % 2 = 0
        /\ (HeaderOf(heap_start) \div 4) % 2 = 0
        /\ (HeaderOf(Epilogue) \div 4) % 2 = 0

\* C8 witness: a minimum-size block (24 bytes) is free and another is
\* allocated.
C8_Witness ==
    /\ Ready
    /\ \E bp \in FreeBlocks : SizeOf(bp) = 24
    /\ \E k \in DOMAIN RealBlocks :
          IsAlloc(RealBlocks[k]) /\ SizeOf(RealBlocks[k]) = 24

\* C9: the prologue has size 8 and A = 1 in header and footer; the
\* epilogue header is the last word of the heap, with size 0, A = 1 and
\* P equal to the A flag of the last real block.
C9_PrologueEpilogue ==
    Ready =>
        /\ SizeOf(heap_start) = 8 /\ IsAlloc(heap_start)
        /\ (WordAt(heap_start) \div 8) * 8 = 8 /\ WordAt(heap_start) % 2 = 1
        /\ heap_start + 8 = FirstBlock
        /\ Epilogue - 4 = mem_brk - 4
        /\ SizeOf(Epilogue) = 0 /\ IsAlloc(Epilogue)
        /\ RealBlocks # << >>
        /\ PrevAllocFlag(Epilogue) = IsAlloc(RealBlocks[Len(RealBlocks)])

\* C9 witness: the epilogue has moved (the heap was extended after
\* mm_init) and the last real block is allocated.
C9_Witness ==
    /\ Ready
    /\ mem_brk > mem_heap_lo + 112 + CHUNKSIZE
    /\ IsAlloc(RealBlocks[Len(RealBlocks)])

\* C10: after a successful mm_init and after every later call,
\* mm_checkheap returns 0 (no error).
C10_CheckheapPasses ==
    Ready => mm_checkheap(mem, mem_brk, heap_ptr, heap_start) = 0

\* C10 witness: the checker runs on a heap with allocated blocks between
\* free blocks of two buckets, after a heap extension.
C10_Witness ==
    /\ Ready
    /\ mem_brk > mem_heap_lo + 112 + CHUNKSIZE
    /\ Cardinality(FreeBlocks) >= 2
    /\ Cardinality(DOMAIN live) >= 2

\* Section 3.3's table: the inclusive upper bound of buckets 0 to 10;
\* bucket 11 has none.
TableBound(k) == 128 * (2 ^ k)
\* The lowest-indexed bucket whose upper bound is >= s.
TableBucket(s) ==
    IF \E k \in 0 .. 10 : s <= TableBound(k)
    THEN CHOOSE k \in 0 .. 10 :
            s <= TableBound(k) /\ \A j \in 0 .. (k - 1) : s > TableBound(j)
    ELSE 11

\* C11: both classifiers put every block size s (a multiple of 8, s >= 24)
\* in the lowest-indexed bucket whose upper bound in the table 128, 256,
\* ..., 16384, ..., 131072, infinity is >= s.
C11_ClassifiersFollowTable ==
    last.op = "classify" =>
        /\ last.insert = 8 * TableBucket(last.size)
        /\ last.search = 8 * TableBucket(last.size)

\* A step of the run that is a public call (it is then recorded in last').
Called(op) == calls' = calls + 1 /\ last'.op = op

\* The allocator state a call may change, and the pointers the client holds.
Allocator == <<mem, mem_brk, heap_ptr, heap_start, phase, live>>

\* C12: malloc(0) returns NULL and leaves the heap size, every byte of the
\* heap (headers, footers, links, bucket heads) and the globals unchanged.
C12_ZeroRequestChangesNothing ==
    [][Called("malloc") /\ last'.size = 0
         => last'.ret = NULL /\ UNCHANGED Allocator]_vars

\* C12 witness: malloc(0) was called on a heap that holds a live block and
\* a free block.
C12_Witness ==
    /\ last.op = "malloc" /\ last.size = 0
    /\ DOMAIN live # {}
    /\ FreeBlocks # {}

\* The adjusted size the claims give for a request of n bytes.
AsizeOf(n) == IF n <= 16 THEN 24 ELSE ((n + 4 + 7) \div 8) * 8

\* C13: when malloc(n), n >= 1, returns a pointer, its block is allocated
\* and its header size S has asize(n) <= S < asize(n) + 24 and S >= n + 4;
\* on a fresh heap malloc of 1, 5 and 12 bytes gives three distinct blocks
\* of header size 24.
C13_BlockSizeOfRequest ==
    /\ last.op = "malloc" /\ last.size >= 1 /\ last.ret # NULL =>
          /\ IsAlloc(last.ret)
          /\ AsizeOf(last.size) <= SizeOf(last.ret)
          /\ SizeOf(last.ret) < AsizeOf(last.size) + 24
          /\ SizeOf(last.ret) >= last.size + 4
    /\ calls = 4 /\ Cardinality(DOMAIN live) = 3
          /\ {live[p] : p \in DOMAIN live} = {1, 5, 12} =>
          \A p \in DOMAIN live : IsAlloc(p) /\ SizeOf(p) = 24

\* C13 witness: the fresh heap after malloc of 1, 5 and 12 bytes.
C13_Witness ==
    /\ last.op = "malloc" /\ last.ret # NULL
    /\ calls = 4 /\ Cardinality(DOMAIN live) = 3
    /\ {live[p] : p \in DOMAIN live} = {1, 5, 12}

\* C14: malloc(n) returns NULL and hands out no block when n + 4 rounded up
\* to a multiple of 8 wraps around in size_t.
C14_WrappingRequestRefused ==
    last.op = "malloc" /\ last.size < 0 =>
        last.ret = NULL /\ \A p \in DOMAIN live : live[p] >= 0

(* --------------------- C15: refused extension ------------------------- *)

\* Every invariant of the heap layout and of the free lists, and the
\* verdict of the consistency checker.
HeapValid ==
    /\ C1_LivePayloadsDisjoint /\ C2_PointersAlignedInHeap
    /\ C3_PrevAllocMatches /\ C4_NoAdjacentFree /\ C5_FreeBlocksIndexed
    /\ C6_ListsWellFormed /\ C7_FooterEqualsHeader /\ C8_BlockSizes
    /\ C9_PrologueEpilogue /\ C10_CheckheapPasses

\* C15: a malloc(n), n >= 1, that returns NULL (no free block fits and
\* mem_sbrk refuses the extension) leaves the heap bytes, the break, the
\* globals and every live pointer as they were, and the heap it leaves
\* satisfies every invariant and passes mm_checkheap.
C15_RefusedMallocChangesNothing ==
    /\ [][Called("malloc") /\ last'.size >= 1 /\ last'.ret = NULL
            => /\ find_fit(mem, heap_ptr, adjusted_size(last'.size)) = NULL
               /\ mem_brk + MAX(adjusted_size(last'.size), CHUNKSIZE)
                     > mem_max_addr
               /\ UNCHANGED Allocator]_vars
    /\ [](last.op = "malloc" /\ last.size >= 1 /\ last.ret = NULL
            => HeapValid)

\* C15 witness: a refused malloc with two blocks live.
C15_Witness ==
    /\ last.op = "malloc" /\ last.size >= 1 /\ last.ret = NULL
    /\ Cardinality(DOMAIN live) >= 2

(* ----------------------- C16: refused mm_init ------------------------- *)

\* The bytes mm_init asks mem_sbrk for: the bucket table, the four
\* sentinel words and the first chunk.
InitialHeap == (NO_OF_LISTS * DSIZE) + (4 * WSIZE) + CHUNKSIZE

\* C16: when the heap limit refuses one of mm_init's three extensions,
\* mm_init returns -1 and has stored nothing through mem_sbrk's error
\* value.
C16_RefusedInitFails ==
    last.op = "mm_init" /\ mem_max_addr < mem_heap_lo + InitialHeap
        => phase = "init_failed" /\ last.ret = -1

(* -------------------------- C17: free(NULL) --------------------------- *)

\* C17: free(NULL) leaves the heap bytes, the break, the globals and every
\* live pointer as they were, whatever the state it is called in.
C17_FreeNullChangesNothing ==
    [][Called("free") /\ last'.ptr = NULL => UNCHANGED Allocator]_vars

\* C17 witness: free(NULL) called with a block live and a block free.
C17_Witness ==
    /\ last.op = "free" /\ last.ptr = NULL
    /\ DOMAIN live # {} /\ FreeBlocks # {}

(* ----------------------- C18: realloc in place ------------------------ *)

\* The heap and the globals, and the pointers the client holds.
HeapState == <<mem, mem_brk, heap_ptr, heap_start, phase>>

\* C18: realloc(p, n) on a live p with 0 < n <= the size of p's block less
\* its 4-byte header returns p and leaves the heap, the globals and the set
\* of live pointers as they were.
C18_ResizeWithinBlockReturnsSame ==
    [][(/\ Called("realloc") /\ last'.ptr # NULL
        /\ last'.size > 0 /\ last'.size <= SizeOf(last'.ptr) - WSIZE)
          => /\ last'.ret = last'.ptr
             /\ UNCHANGED HeapState
             /\ DOMAIN live' = DOMAIN live]_vars

(* ---------------------- C19: realloc out of memory -------------------- *)

\* The bytes of the block at bp after its header, as far as size bytes.
Payload(m, bp, size) == [i \in 0 .. (size - WSIZE - 1) |-> m[bp + i]]

\* C19: a realloc(p, n) on a live p that has to move (n > 0 exceeds what
\* the code takes for p's capacity) and whose malloc(n) returns NULL returns
\* NULL; p's block is still allocated and in no list, its bytes are what
\* they were, and nothing else of the heap changed either.
C19_FailedResizeKeepsBlock ==
    [][(/\ Called("realloc") /\ last'.ptr # NULL
        /\ last'.size > SizeOf(last'.ptr) - OVERHEAD
        /\ malloc(mem, mem_brk, heap_ptr, last'.size, fresh).bp = NULL)
          => /\ last'.ret = NULL
             /\ last'.ptr \in DOMAIN live'
             /\ GET_ALLOC(mem', HDRP(last'.ptr)) = 1
             /\ PlacesOf(Buckets', last'.ptr) = {}
             /\ Payload(mem', last'.ptr, SizeOf(last'.ptr))
                   = Payload(mem, last'.ptr, SizeOf(last'.ptr))
             /\ UNCHANGED Allocator]_vars

\* C19 witness: a realloc that returned NULL for a live pointer.
C19_Witness ==
    /\ last.op = "realloc" /\ last.ptr # NULL /\ last.size > 0
    /\ last.ret = NULL /\ last.ptr \in DOMAIN live

(* ------------------------ C20: realloc that moves --------------------- *)

\* C20: after q = realloc(p, n) on a live p with n more than the bytes of
\* p's block after its header and q not NULL, the bytes at q, as many as
\* p's block had after its header, are the bytes p held when realloc was
\* called; q is live and allocated, p is not live, and p's address lies in
\* a free block that is in a list.
C20_MovedResizeKeepsBytes ==
    /\ [][(/\ Called("realloc") /\ last'.ptr # NULL
           /\ last'.size > SizeOf(last'.ptr) - WSIZE
           /\ last'.ret # NULL)
             => /\ last'.ret # last'.ptr
                /\ Payload(mem', last'.ret, SizeOf(last'.ptr))
                      = Payload(mem, last'.ptr, SizeOf(last'.ptr))
                /\ last'.ret \in DOMAIN live'
                /\ last'.ptr \notin DOMAIN live']_vars
    /\ [](last.op = "realloc" /\ last.ptr # NULL
            /\ last.ret # NULL /\ last.ret # last.ptr
             => /\ IsAlloc(last.ret)
                /\ \E b \in FreeBlocks :
                      /\ b <= last.ptr /\ last.ptr < b + SizeOf(b)
                      /\ ~IsAlloc(b)
                      /\ PlacesOf(Buckets, b) # {})

\* C20 witness: a realloc that moved a block the client had written to,
\* and the bytes the client wrote are at the new address.
C20_Witness ==
    /\ last.op = "realloc" /\ last.ptr # NULL
    /\ last.ret # NULL /\ last.ret # last.ptr
    /\ mem[last.ret] = StampByte(0)
    /\ mem[last.ret + 11] = StampByte(11)

(* --------------------- C21: bytes realloc copies ---------------------- *)

\* C21: on a moving realloc(p, n) only the bytes of p's block after its
\* header are copied: the bytes at q from that count on, up to n, are what
\* malloc(n) left there (realloc read nothing past p's block).
C21_CopyStaysInsideBlock ==
    [][(/\ Called("realloc") /\ last'.ptr # NULL
        /\ last'.size > SizeOf(last'.ptr) - WSIZE
        /\ last'.ret # NULL)
          => \A i \in (SizeOf(last'.ptr) - WSIZE) .. (last'.size - 1) :
                mem'[last'.ret + i]
                  = malloc(mem, mem_brk, heap_ptr, last'.size,
                           fresh).m[last'.ret + i]]_vars

(* ------------------- C22: realloc as malloc and free ------------------ *)

\* C22: realloc(NULL, n), n # 0, returns what malloc(n) returns and leaves
\* the heap malloc(n) leaves; realloc(p, 0) on a live p returns NULL and
\* leaves the heap free(p) leaves, with p no longer live; realloc(NULL, 0)
\* returns NULL and changes nothing.
C22_ResizeAsAllocAndRelease ==
    [][Called("realloc") =>
         /\ last'.ptr = NULL /\ last'.size # 0 =>
               /\ last'.ret
                    = malloc(mem, mem_brk, heap_ptr, last'.size, fresh).bp
               /\ mem' = malloc(mem, mem_brk, heap_ptr, last'.size, fresh).m
               /\ mem_brk'
                    = malloc(mem, mem_brk, heap_ptr, last'.size, fresh).brk
               /\ DOMAIN live' = DOMAIN live \cup ({last'.ret} \ {NULL})
               /\ UNCHANGED <<heap_ptr, heap_start, phase>>
         /\ last'.ptr # NULL /\ last'.size = 0 =>
               /\ last'.ret = NULL
               /\ mem' = free(mem, heap_ptr, last'.ptr)
               /\ live' = Drop(live, last'.ptr)
               /\ UNCHANGED <<mem_brk, heap_ptr, heap_start, phase>>
         /\ last'.ptr = NULL /\ last'.size = 0 =>
               /\ last'.ret = NULL
               /\ UNCHANGED Allocator]_vars

\* C22 witness: realloc(p, 0) on a live p, with another block still live.
C22_Witness ==
    /\ last.op = "realloc" /\ last.ptr # NULL /\ last.size = 0
    /\ last.ptr \notin DOMAIN live /\ DOMAIN live # {}
    /\ \E b \in FreeBlocks : b <= last.ptr /\ last.ptr < b + SizeOf(b)

(* ------------------------ C23: calloc zeroes -------------------------- *)

\* C23: when calloc(nmemb, size) returns a pointer that is not NULL, each
\* of the nmemb * size bytes from that pointer on is 0.
C23_CallocBytesZero ==
    last.op = "calloc" /\ last.ret # NULL /\ phase = "ready"
        => \A i \in 0 .. ((last.nmemb * last.size) - 1) :
              mem[last.ret + i] = 0

(* --------------------- C24: calloc out of memory ---------------------- *)

\* C24: a calloc(nmemb, size) whose malloc(nmemb * size) returns NULL
\* returns NULL, stores nothing (phase stays "ready": no store through
\* NULL) and leaves the heap, the break, the globals and the live pointers
\* as they were.
C24_FailedCallocStoresNothing ==
    [][(/\ Called("calloc")
        /\ malloc(mem, mem_brk, heap_ptr, last'.nmemb * last'.size,
                  fresh).bp = NULL)
          => /\ last'.ret = NULL
             /\ UNCHANGED Allocator]_vars

(* ------------------ C25: adjacent blocks both freed ------------------- *)

\* The size bytes from bp on lie in the block at b, after its header.
Covers(b, bp, size) == b <= bp /\ bp + size <= b + SizeOf(b) - WSIZE

\* The calls made so far are mm_init, p = malloc(100), q = malloc(100) and
\* free of p and of q, in either order.
TwoFreed ==
    /\ Len(last.hist) = 5
    /\ \A k \in {2, 3} : /\ last.hist[k].op = "malloc"
                          /\ last.hist[k].size = 100
                          /\ last.hist[k].ret # NULL
    /\ \A k \in {4, 5} : last.hist[k].op = "free"
    /\ {last.hist[4].ptr, last.hist[5].ptr}
          = {last.hist[2].ret, last.hist[3].ret}

\* C25: when free(p) finds a physical neighbour of p's block free, one
\* free block holds both afterwards; and after mm_init, p = malloc(100),
\* q = malloc(100), free of both in either order, exactly one free block
\* holds the 100 bytes of p and of q, its size is 200 or more and it is in
\* list 1 or above.
C25_FreedNeighboursMerge ==
    /\ [][Called("free") /\ last'.ptr # NULL =>
            \A n \in FreeBlocks :
               n + SizeOf(n) = last'.ptr
                 \/ last'.ptr + SizeOf(last'.ptr) = n =>
                   \E b \in FreeBlocks' :
                      /\ b <= n /\ b <= last'.ptr
                      /\ n + SizeOf(n) <= b + GET_SIZE(mem', HDRP(b))
                      /\ last'.ptr + SizeOf(last'.ptr)
                            <= b + GET_SIZE(mem', HDRP(b))]_vars
    /\ [](TwoFreed =>
            LET p == last.hist[2].ret
                q == last.hist[3].ret
                both == {b \in FreeBlocks :
                           Covers(b, p, 100) /\ Covers(b, q, 100)}
            IN  /\ Cardinality(both) = 1
                /\ \A b \in both :
                      /\ SizeOf(b) >= 200
                      /\ PlacesOf(Buckets, b) # {}
                      /\ \A ik \in PlacesOf(Buckets, b) : ik[1] >= 1)

\* C25 witness: both blocks of 100 bytes freed, the one at the higher
\* address first.
C25_Witness ==
    /\ TwoFreed
    /\ last.hist[4].ptr = last.hist[3].ret
    /\ last.hist[3].ret > last.hist[2].ret

(* ------------------ C26: every other block freed ---------------------- *)

\* The calls made so far are mm_init, 16 times malloc(64) and 8 times free.
RowFreed ==
    /\ Len(last.hist) = 25
    /\ \A k \in 2 .. 17 : /\ last.hist[k].op = "malloc"
                           /\ last.hist[k].size = 64
                           /\ last.hist[k].ret # NULL
    /\ \A k \in 18 .. 25 : last.hist[k].op = "free"

\* The pointers freed, and whether they are every other one of the row.
Released == {last.hist[k].ptr : k \in 18 .. 25}
ReleasedRanks == {RankOf(last.hist, p) : p \in Released}
EveryOther ==
    \/ ReleasedRanks = {1, 3, 5, 7, 9, 11, 13, 15}
    \/ ReleasedRanks = {2, 4, 6, 8, 10, 12, 14, 16}

\* C26 as stated: after mm_init, 16 times malloc(64) and the free of every
\* other pointer, each of the 8 pointers freed is a free block of 72 bytes
\* (merged with nothing) in list 0, and list 0 has exactly 8 nodes.
C26_EightApartInListZero ==
    RowFreed /\ EveryOther =>
        /\ \A p \in Released :
              /\ p \in FreeBlocks /\ SizeOf(p) = 72
              /\ \E k \in DOMAIN Buckets[0] : Buckets[0][k] = p
        /\ Len(Buckets[0]) = 8

\* C26 amended: the 16 blocks leave 24 free bytes at the end of the heap.
\* When the first, third, ... blocks are freed, the 8 freed blocks are free
\* blocks of 72 bytes and list 0 holds them and the 24-byte block, 9 nodes.
\* When the second, fourth, ... blocks are freed, the 16th merges with the
\* 24-byte block into one of 96 bytes, the other 7 are free blocks of 72
\* bytes, and list 0 holds these 8.  No other block is free.
C26_EveryOtherFreedAndRemainder ==
    RowFreed /\ EveryOther =>
        LET last16 == last.hist[17].ret
            list0 == {Buckets[0][k] : k \in DOMAIN Buckets[0]}
        IN  /\ \A p \in Released \ {last16} :
                  p \in FreeBlocks /\ SizeOf(p) = 72
            /\ list0 = FreeBlocks
            /\ Len(Buckets[0]) = Cardinality(FreeBlocks)
            /\ IF last16 \in Released
               THEN /\ FreeBlocks = Released
                    /\ SizeOf(last16) = 96
                    /\ Len(Buckets[0]) = 8
               ELSE /\ FreeBlocks = Released \cup {last16 + 72}
                    /\ SizeOf(last16 + 72) = 24
                    /\ Len(Buckets[0]) = 9

\* C26 witness: the second, fourth, ... and 16th block freed.
C26_Witness ==
    RowFreed /\ EveryOther /\ last.hist[17].ret \in Released

(* ----------------------- C28: where malloc looks --------------------- *)

\* The lists from the one for asize on that hold a block of asize bytes or
\* more, and the first such block of list i.
ListsWithFit(asize) ==
    {i \in TableBucket(asize) .. 11 :
        \E k \in DOMAIN Buckets[i] : SizeOf(Buckets[i][k]) >= asize}
FirstFitIn(i, asize) ==
    Buckets[i][CHOOSE k \in DOMAIN Buckets[i] :
                  /\ SizeOf(Buckets[i][k]) >= asize
                  /\ \A j \in 1 .. (k - 1) : SizeOf(Buckets[i][j]) < asize]

PlacedIn(ret) ==
    (IF ret \in FreeBlocks THEN SizeOf(ret) ELSE 0) + (mem_brk' - mem_brk)

\* C29: a malloc(n) that returns ret has placed asize = asize(n) bytes in a
\* free block of B bytes.  When B - asize >= 24 the block at ret has size
\* asize, A = 1 and the P flag the free block had, and behind it is a free
\* block of B - asize bytes with P = 1, its footer equal to its header, in
\* the list for its size.  Otherwise the block at ret has size B, A = 1 and
\* the same P flag, and the header behind it has P = 1.
C29_PlaceSplitsOrTakesWhole ==
    [][Called("malloc") /\ last'.size >= 1 /\ last'.ret # NULL =>
         LET ret == last'.ret
             asize == AsizeOf(last'.size)
             B == PlacedIn(ret)
             P == IF PrevAllocFlag(ret) THEN PREV_ALLOC ELSE 0
             rest == ret + asize
         IN  IF B - asize >= 24
             THEN /\ GET_4(mem', ret - WSIZE) = asize + P + ALLOC
                  /\ GET_4(mem', rest - WSIZE) = (B - asize) + PREV_ALLOC
                  /\ GET_4(mem', rest + (B - asize) - DSIZE)
                        = (B - asize) + PREV_ALLOC
                  /\ \E k \in DOMAIN Buckets'[TableBucket(B - asize)] :
                        Buckets'[TableBucket(B - asize)][k] = rest
             ELSE /\ B >= asize
                  /\ GET_4(mem', ret - WSIZE) = B + P + ALLOC
                  /\ (GET_4(mem', ret + B - WSIZE) \div PREV_ALLOC) % 2 = 1
      ]_vars

\* C29 witness: a block taken whole, larger than asize, with a real block
\* behind it.
C29_Witness ==
    /\ last.op = "malloc" /\ last.ret # NULL
    /\ SizeOf(last.ret) > AsizeOf(last.size)
    /\ SizeOf(last.ret + SizeOf(last.ret)) > 0

(* --------------------------- C30: coalesce ---------------------------- *)

\* The free block that ends where the block at bp begins, and the free
\* block that begins where it ends (each a set with at most one element).
FreeBefore(bp) == {b \in FreeBlocks : b + SizeOf(b) = bp}
FreeBehind(bp, size) == {b \in FreeBlocks : b = bp + size}

\* The real block that ends where the block at bp begins.
BlockBefore(bp) ==
    LET B == RealBlocks
    IN  {B[k] : k \in {j \in DOMAIN B : B[j] + SizeOf(B[j]) = bp}}

\* The bytes of the blocks in S together.
SizeSum(S) == IF S = {} THEN 0 ELSE SizeOf(CHOOSE b \in S : TRUE)

\* Where the free block made of the block at bp and its free neighbours
\* begins.
MergedStart(bp) ==
    IF FreeBefore(bp) = {} THEN bp ELSE CHOOSE b \in FreeBefore(bp) : TRUE

\* The free block found at start in the heap m, with lists L, has size
\* bytes, a footer equal to its header and exactly one place in the lists,
\* in the list for its size.
MergedBlock(m, L, start, size) ==
    /\ GET_SIZE(m, HDRP(start)) = size
    /\ GET_ALLOC(m, HDRP(start)) = 0
    /\ GET_4(m, start + size - DSIZE) = GET_4(m, HDRP(start))
    /\ Cardinality(PlacesOf(L, start)) = 1
    /\ \A ik \in PlacesOf(L, start) : ik[1] = TableBucket(size)

ForegroundJobs ==
    {k \in 1 .. MAXJOBS : job_list[k].pid # 0 /\ job_list[k].state = FG}

\* C27: in every state the shell reaches, whatever the order of command
\* lines (foreground and background launches, fg, bg), handler runs and
\* child events, at most one job of the job list is in the FG state.
C27_AtMostOneForeground == Cardinality(ForegroundJobs) <= 1

(* ----------------------- C31: insertion at the head -------------------- *)

\* The list L without the blocks of S, in L's order.
Without(L, S) == SelectSeq(L, LAMBDA b : b \notin S)

\* The lists before a step, with the blocks of gone taken out and the block
\* added put in front of the list for size bytes.
HeadInserted(added, size, gone) ==
    [i \in 0 .. 11 |->
        IF i = TableBucket(size) THEN <<added>> \o Without(Buckets[i], gone)
        ELSE Without(Buckets[i], gone)]

\* The block added is the head of the list for size bytes in the heap m,
\* its prev link is NULL, its next link is the former head (NULL when the
\* list was empty), and the former head's prev link is the block.
HeadLinks(m, added, size, gone) ==
    LET was == Without(Buckets[TableBucket(size)], gone)
    IN  /\ GET(m, heap_ptr + 8 * TableBucket(size)) = added
        /\ GET(m, PREV_FREE(added)) = NULL
        /\ GET(m, NEXT_FREE(added)) = IF was = << >> THEN NULL ELSE was[1]
        /\ was # << >> => GET(m, PREV_FREE(was[1])) = added

\* C31: the free block a call inserts last (the block free(p) leaves,
\* merged with its free neighbours, and the remainder of a split in malloc)
\* is afterwards the head of the list for its size, with prev = NULL and
\* next = the former head, whose prev is the block; the rest of that list
\* keeps its order and the other lists hold what they held, less the
\* blocks the call took out.
C31_InsertionAtHead ==
    /\ [][Called("free") /\ last'.ptr # NULL =>
            LET p == last'.ptr
                gone == {p} \cup FreeBefore(p) \cup FreeBehind(p, SizeOf(p))
                total == SizeSum(FreeBefore(p)) + SizeOf(p)
                           + SizeSum(FreeBehind(p, SizeOf(p)))
            IN  /\ Buckets' = HeadInserted(MergedStart(p), total, gone)
                /\ HeadLinks(mem', MergedStart(p), total, gone)
       ]_vars
    /\ [][(/\ Called("malloc") /\ last'.size >= 1 /\ last'.ret # NULL
           /\ PlacedIn(last'.ret) - AsizeOf(last'.size) >= MIN_BLOCK_SIZE) =>
            LET ret == last'.ret
                asize == AsizeOf(last'.size)
            IN  /\ Buckets' = HeadInserted(ret + asize, PlacedIn(ret) - asize,
                                           {ret})
                /\ HeadLinks(mem', ret + asize, PlacedIn(ret) - asize, {ret})
       ]_vars

\* C31 witness: free(p) with no free neighbour has put p in front of a
\* list that had a head.
C31_Witness ==
    /\ last.op = "free" /\ last.ptr # NULL
    /\ \E i \in 0 .. 11 :
          /\ Len(Buckets[i]) >= 2
          /\ Buckets[i][1] = last.ptr
          /\ SizeOf(last.ptr) <= 2 * MIN_BLOCK_SIZE

(* ------------------------ C32: the first heap ------------------------- *)

\* C32: right after an mm_init that returned 0 the heap is 96 + 16 + 168
\* bytes long; the only real block is a free block of 168 bytes with P = 1
\* whose footer equals its header; it is the only node of the list for its
\* size and every other list is empty; the walk ends at the epilogue
\* header, the last word of the heap, which has size 0, A = 1 and P = 0.
C32_HeapAfterInit ==
    last.op = "mm_init" /\ last.ret = 0 =>
        /\ mem_brk - mem_heap_lo = 96 + 16 + 168
        /\ RealBlocks = <<FirstBlock>>
        /\ HeaderOf(FirstBlock) = 168 + PREV_ALLOC
        /\ WordAt(FirstBlock + 168 - DSIZE) = HeaderOf(FirstBlock)
        /\ Buckets = [i \in 0 .. 11 |->
                         IF i = TableBucket(168) THEN <<FirstBlock>>
                         ELSE << >>]
        /\ Epilogue = mem_brk
        /\ HeaderOf(Epilogue) = ALLOC

\* C32 witness: mm_init has just returned 0.
C32_Witness == last.op = "mm_init" /\ last.ret = 0 /\ phase = "ready"

(* ------------------- C33: stepping back over a footer ---------------- *)

\* C33: free(p) hands p to coalesce with the P flag p's header has, and
\* every block coalesce evaluates PREV_BLKP for has P = 0, that is, a free
\* block with a footer in front of it.
C33_NoStepBackOverAllocated ==
    [][Called("free") /\ last'.ptr # NULL =>
          \A b \in coalesce_prev_blkp(last'.ptr) : ~PrevAllocFlag(b)]_vars

(* ------------------ C34: the checker and the P flags ------------------ *)

\* Every invariant of the heap but the one on the P flags (C3).
IntactButPFlags ==
    /\ C1_LivePayloadsDisjoint /\ C2_PointersAlignedInHeap
    /\ C4_NoAdjacentFree /\ C5_FreeBlocksIndexed /\ C6_ListsWellFormed
    /\ C7_FooterEqualsHeader /\ C8_BlockSizes /\ C9_PrologueEpilogue

\* C34: when mm_checkheap has run on a heap in which some block's P flag
\* differs from the A flag of the block before it, and nothing else is
\* wrong, it has returned 1.
C34_CheckerSeesWrongPFlag ==
    last.op = "mm_checkheap" /\ ~C3_PrevAllocMatches /\ IntactButPFlags
        => last.ret = 1

(* -------------------- C35: the checker and cycles --------------------- *)

\* The next links of list i lead from its head into a cycle: following
\* them never reaches NULL.
Cyclic(i) ==
    /\ ListEnd(BucketHead(i), ListFuel) # NULL
    /\ \A k \in DOMAIN Bucket(i) : in_heap(mem_brk, Bucket(i)[k])

\* C35: when mm_checkheap has run, check_for_cycle's loop has ended for
\* every list, with a cycle reported (and mm_checkheap returning 1) if
\* the list's next links form a cycle and none reported if they do not.
C35_CyclesFoundAndLoopEnds ==
    last.op = "mm_checkheap" =>
        \A i \in 0 .. 11 :
           LET r == cycle_loop(mem, heap_ptr + find_list(i),
                               heap_ptr + find_list(i), LoopFuel(mem_brk))
           IN  IF Cyclic(i) THEN r = 1 /\ last.ret = 1 ELSE r = 0

(* ---------------- C36: the checker and the list nodes ----------------- *)

\* A node of some bucket list has A = 1 or lies outside the heap.
BadNode ==
    \E i \in 0 .. 11 : \E k \in DOMAIN Bucket(i) :
       IsAlloc(Bucket(i)[k]) \/ ~in_heap(mem_brk, Bucket(i)[k])

\* C36: when mm_checkheap has run on a heap in which a node of a bucket
\* list has A = 1 or is outside the heap, it has returned 1, also when the
\* lists hold as many nodes as the heap has blocks with A = 0.
C36_CheckerSeesBadNode ==
    last.op = "mm_checkheap" /\ BadNode => last.ret = 1

(* ------------------- C37: the blocks tile the heap -------------------- *)

\* The bytes the heap got from chunk extensions: all but the 96 bytes of
\* the table and the 16 of pad, prologue and epilogue mm_init asks first.
ChunkBytes == mem_brk - (mem_heap_lo + (NO_OF_LISTS * DSIZE) + (4 * WSIZE))

\* The sum of the sizes of the blocks the walk from bp passes.
RECURSIVE SizesFrom(_)
SizesFrom(bp) ==
    IF SizeOf(bp) <= 0 THEN 0 ELSE SizeOf(bp) + SizesFrom(bp + SizeOf(bp))

\* The walk from the first block by header sizes ends at the epilogue
\* header in the last word of the heap, and the sizes it passes add up to
\* the bytes of the chunk extensions.
Tiled ==
    /\ Epilogue = mem_brk
    /\ HeaderOf(Epilogue) \in {ALLOC, ALLOC + PREV_ALLOC}
    /\ \A k \in DOMAIN RealBlocks :
          /\ SizeOf(RealBlocks[k]) > 0
          /\ k < Len(RealBlocks)
                => RealBlocks[k] + SizeOf(RealBlocks[k]) = RealBlocks[k + 1]
    /\ SizesFrom(FirstBlock) = ChunkBytes

\* C37: whenever the allocator is ready the real blocks tile the heap: the
\* walk from the first block ends exactly at the epilogue header in the
\* last word, the block sizes add up to the bytes got from chunk
\* extensions, and these are a multiple of 8 after every extension (so
\* each extension is one), the first being CHUNKSIZE.
C37_BlocksTileHeap ==
    Ready => /\ Tiled
             /\ ChunkBytes % DSIZE = 0
             /\ ChunkBytes >= CHUNKSIZE

\* C37 witness: the heap has been extended after mm_init and holds
\* allocated and free blocks.
C37_Witness ==
    /\ Ready
    /\ ChunkBytes > CHUNKSIZE
    /\ Len(RealBlocks) >= 3
    /\ FreeBlocks # {}
    /\ \E k \in DOMAIN RealBlocks : IsAlloc(RealBlocks[k])

(* ------------------ C38: the block place is given -------------------- *)

\* In the heap m the block bp is free, a node of the list for its size,
\* and holds at least asize bytes.
Placeable(m, hp, brk, bp, asize) ==
    /\ GET_ALLOC(m, HDRP(bp)) = 0
    /\ \E L \in {NodesFrom(m, GET(m, hp + find_list_by_size(
                                            GET_SIZE(m, HDRP(bp)))),
                            LoopFuel(brk))} :
          \E k \in DOMAIN L : L[k] = bp
    /\ GET_SIZE(m, HDRP(bp)) >= asize
    /\ GET_SIZE(m, HDRP(bp)) - asize >= 0

\* C38: in every malloc step that returns a block, the call of place is
\* made on the block returned, found by find_fit or made by extend_heap,
\* and in the heap of that moment the block is free, a node of the list
\* for its size, and at least asize bytes long.
C38_PlaceGetsFreeListedFit ==
    [][Called("malloc") /\ last'.ret # NULL =>
         \E a \in {place_call(mem, mem_brk, heap_ptr, last'.size, fresh)} :
            /\ a.bp = last'.ret
            /\ Placeable(a.m, heap_ptr, mem_brk', a.bp, a.asize)]_vars

\* C38 witness: the second malloc(100) after mm_init has been served from
\* the extension, which coalesce joined with the 64 free bytes in front.
C38_Witness ==
    /\ last.op = "malloc" /\ last.ret # NULL /\ calls = 3
    /\ last.ret < mem_heap_lo + 280
    /\ last.ret + SizeOf(last.ret) > mem_heap_lo + 280

(* --------------- C39: the order of two releases ---------------------- *)

\* The blocks of the heap m in address order, each with its header word
\* (size, P flag, A flag), and the epilogue header behind them.
BlockWords(m, hp, brk) ==
    LET first == (NO_OF_LISTS * DSIZE) + (2 * DSIZE) + hp
        W == WalkFrom(m, first, LoopFuel(brk))
        end == IF W = << >> THEN first ELSE NEXT_BLKP(m, W[Len(W)])
    IN  [k \in 1 .. (Len(W) + 1) |->
            IF k <= Len(W) THEN <<W[k], GET_4(m, HDRP(W[k]))>>
            ELSE <<end, GET_4(m, HDRP(end))>>]

\* The set of nodes of each bucket list of the heap m.
BucketSets(m, hp, brk) ==
    [i \in 0 .. (NO_OF_LISTS - 1) |->
        LET L == NodesFrom(m, GET(m, hp + find_list(i)), LoopFuel(brk))
        IN  {L[k] : k \in DOMAIN L}]

SameStructure(m1, m2, hp, brk) ==
    /\ BlockWords(m1, hp, brk) = BlockWords(m2, hp, brk)
    /\ BucketSets(m1, hp, brk) = BucketSets(m2, hp, brk)

\* C39: when free(q) has been called, then for every other live pointer p
\* the heap free(p) would leave now (q released first, then p) has the
\* same blocks, with the same addresses, sizes, A and P flags, and the same
\* set of free blocks in each bucket list as the heap that free(p) and
\* then free(q) would have left from the state before the call.
C39_ReleaseOrderIrrelevant ==
    [][Called("free") /\ last'.ptr # NULL =>
         \A p \in DOMAIN live' :
            SameStructure(free(mem', heap_ptr, p),
                          free(free(mem, heap_ptr, p), heap_ptr, last'.ptr),
                          heap_ptr, mem_brk)]_vars

\* C39 witness: free(q) has been called and the block in front of q's is
\* held by the client, so that the two releases merge in either order.
C39_Witness ==
    /\ last.op = "free" /\ last.ptr # NULL
    /\ \E p \in DOMAIN live : p + SizeOf(p) = last.ptr
    /\ last.ptr \in FreeBlocks

(* ------------- C40: addjob comes before the handler ------------------ *)

\* The children waitpid reports to sigchld_handler: stopped since the
\* last report, or ended.
Reportable == {p \in Pids : child[p] \in {"stopped_new", "exited", "signaled"}}

\* C40: whenever sigchld_handler runs, every child it is told of has its
\* job in the list: addjob for the pid has been made before the handler
\* deletes the job or sets it to ST, also when the child ends or stops
\* before eval has called addjob.
C40_AddjobBeforeHandler ==
    [][sigchld_handler =>
          \A p \in Reportable : getjobpid(job_list, p) # NULL]_vars

\* C40 witness: the background job eval has just added is gone from the
\* list again: its child ended early and the handler ran as soon as the
\* signals were unblocked.
C40_Witness ==
    /\ pc = "eval_print"
    /\ child[pid] = "none"
    /\ getjobpid(job_list, pid) = NULL

====
